---------------------------- MODULE Spec2Model ----------------------------
(***************************************************************************)
(* Model of the CC3XX low level random number driver                       *)
(* (platform/ext/target/arm/drivers/cc3xx/low_level_driver/src/cc3xx_rng.c)*)
(*                                                                         *)
(* Memory is modelled byte by byte (little endian, as on the Cortex-M      *)
(* cores the driver runs on).  32 and 64 bit words are handled as the set  *)
(* of the positions of their 1 bits, so that every operation keeps its     *)
(* exact width.                                                            *)
(***************************************************************************)
EXTENDS Integers, Sequences, FiniteSets, TLC

(***************************************************************************)
(* Bounds of the model                                                     *)
(***************************************************************************)
\* the number of API calls of one behaviour
MaxCalls == 2
\* the longest request is MaxWords 32 bit words
MaxWords == 7
\* the longest permutation shuffled with every result of the sampler
MaxPermLen == 4
\* the number of draws of the fast generator followed one by one
MaxDraws == 3
\* the number of calls made on one hash operation
MaxHashCalls == 3
\* the number of calls made on the key store
MaxKeyCalls == 4
MaxBootCalls == 3

(***************************************************************************)
(* Configuration of the build                                              *)
(***************************************************************************)
\* CC3XX_CONFIG_RNG_MAX_ATTEMPTS (cc3xx_config.h)
CC3XX_CONFIG_RNG_MAX_ATTEMPTS == 3
\* sizeof(P_CC3XX->rng.ehr_data) / sizeof(uint32_t) (cc3xx_dev.h)
EHR_WORDS == 6
\* sizeof(uint32_t)
WORD == 4
\* the number of values of a uint8_t
UINT8_VALUES == 256

CC3XX_ERR_SUCCESS == "CC3XX_ERR_SUCCESS"
CC3XX_ERR_RNG_TOO_MANY_ATTEMPTS == "CC3XX_ERR_RNG_TOO_MANY_ATTEMPTS"
CC3XX_ERR_RNG_INVALID_RNG == "CC3XX_ERR_RNG_INVALID_RNG"
CC3XX_RNG_CRYPTOGRAPHICALLY_SECURE == "CC3XX_RNG_CRYPTOGRAPHICALLY_SECURE"
CC3XX_RNG_FAST == "CC3XX_RNG_FAST"

(***************************************************************************)
(* Bytes, words and their bits                                             *)
(***************************************************************************)
Byte == 0..255
\* a byte of memory that no store has written
UNWRITTEN == -1

Pow2(n) == 2^n
Bit(n, j) == (n \div Pow2(j)) % 2

Min(a, b) == IF a < b THEN a ELSE b
MaxOf(S) == CHOOSE x \in S : \A y \in S : y <= x
MinOf(S) == CHOOSE x \in S : \A y \in S : x <= y

\* the 1 bits of a byte
ByteBits == [b \in Byte |-> {j \in 0..7 : Bit(b, j) = 1}]

\* the 1 bits of the little endian word held in the bytes of seq
BitsOf(seq) ==
    UNION {{8 * (i - 1) + j : j \in ByteBits[seq[i]]} : i \in 1..Len(seq)}

ByteAt(bits, i) ==
      (IF 8 * i + 0 \in bits THEN 1 ELSE 0) + (IF 8 * i + 1 \in bits THEN 2 ELSE 0)
    + (IF 8 * i + 2 \in bits THEN 4 ELSE 0) + (IF 8 * i + 3 \in bits THEN 8 ELSE 0)
    + (IF 8 * i + 4 \in bits THEN 16 ELSE 0) + (IF 8 * i + 5 \in bits THEN 32 ELSE 0)
    + (IF 8 * i + 6 \in bits THEN 64 ELSE 0) + (IF 8 * i + 7 \in bits THEN 128 ELSE 0)

\* the n bytes of the little endian word whose 1 bits are bits
BytesOf(bits, n) == [i \in 1..n |-> ByteAt(bits, i - 1)]

Xor(a, b) == (a \ b) \cup (b \ a)
And(a, b) == a \cap b
\* a << n and a >> n on words of w bits
Shl(a, n, w) == {i + n : i \in {k \in a : k + n < w}}
Shr(a, n) == {i - n : i \in {k \in a : k >= n}}
\* a - 1 modulo 2^w
Dec(a, w) == IF a = {} THEN 0..(w - 1)
             ELSE (a \ {MinOf(a)}) \cup 0..(MinOf(a) - 1)
\* a >= b, unsigned
Geq(a, b) == a = b \/ MaxOf(Xor(a, b)) \in a
\* __builtin_clz on a non-zero 32 bit word
Clz(a) == 31 - MaxOf(a)

\* the sum of the little endian words x and y from byte i on, with carry c;
\* the carry out of the last byte is dropped
RECURSIVE AddCarry(_, _, _, _)
AddCarry(x, y, i, c) ==
    IF i > Len(x) THEN << >>
    ELSE <<(x[i] + y[i] + c) % 256>>
             \o AddCarry(x, y, i + 1, (x[i] + y[i] + c) \div 256)
\* a + b modulo 2^w, w a multiple of 8
Add(a, b, w) ==
    BitsOf(AddCarry(BytesOf(a, w \div 8), BytesOf(b, w \div 8), 1, 0))

(***************************************************************************)
(* The machine: the driver's statics, the RNG registers of the CC3XX, what *)
(* the hardware will answer during the call (env) and the trace of the     *)
(* call (log).  Every function of the driver is an operator from a machine *)
(* to a machine and a result.                                              *)
(***************************************************************************)
Ev(ev, q, a, b) == [ev |-> ev, q |-> q, a |-> a, b |-> b]
Logged(m, e) == [m EXCEPT !.log = Append(@, e)]

\* history: the bytes generator q has produced, and the bytes of pool q that
\* were handed out or thrown away, in the order in which that happened
Generated(m, q, bytes) == [m EXCEPT !.stream[q] = @ \o bytes]
Taken(m, q, bytes) == [m EXCEPT !.taken[q] = @ \o bytes]

Zeros(n) == [i \in 1..n |-> 0]
Unwritten(n) == [i \in 1..n |-> UNWRITTEN]

\* sizeof(entropy_buf) and sizeof(lfsr_buf)
SizeofEntropyBuf == EHR_WORDS * WORD
SizeofLfsrBuf == (8 \div WORD) * WORD

\* reset values of the RNG registers the driver uses
RngReset ==
    [rng_clk_enable |-> 0, rng_sw_reset |-> 0, sample_cnt1 |-> "reset",
     rnd_source_enable |-> 0, rng_icr |-> "none", rng_imr |-> "reset",
     trng_config |-> "reset", trng_debug_control |-> "reset",
     rst_bits_counter |-> 0]

\* the statics of cc3xx_rng.c after load
StaticsInit ==
    [lfsr_seed_done |-> FALSE,
     lfsr_buf |-> Zeros(SizeofLfsrBuf),
     lfsr_buf_used_idx |-> SizeofLfsrBuf,
     entropy_buf |-> Zeros(SizeofEntropyBuf),
     entropy_buf_used_idx |-> SizeofEntropyBuf,
     state |-> Zeros(16)]

\* a slip: rounds down instead of up
round_up_down(num, boundary) == num - (num % boundary)

round_up(num, boundary) ==
    (num + boundary - 1) - ((num + boundary - 1) % boundary)

\* FATAL_ERR reports the error; a build that halts on fatal errors never
\* returns from it, any other build carries on with the next statement
FATAL_ERR(m, err) ==
    [Logged(m, Ev("FATAL_ERR", err, 0, 0)) EXCEPT !.halted = m.halt_on_fatal]

trng_init(m) ==
    [Logged(m, Ev("trng_init", "", 0, 0)) EXCEPT
        !.rng = [@ EXCEPT !.rng_clk_enable = 1,
                          !.rng_sw_reset = 1,
                          !.sample_cnt1 = "CC3XX_CONFIG_RNG_SUBSAMPLING_RATE",
                          !.rng_icr = "0x3F",
                          !.rng_imr = "0x3E",
                          !.trng_config = "CC3XX_CONFIG_RNG_RING_OSCILLATOR_ID|4",
                          !.trng_debug_control = "0x0",
                          !.rnd_source_enable = 1]]

trng_finish(m) ==
    [Logged(m, Ev("trng_finish", "", 0, 0)) EXCEPT
        !.rng = [@ EXCEPT !.rnd_source_enable = 0, !.rng_clk_enable = 0]]

\* the value trng_finish returns
TrngFinishErr == CC3XX_ERR_SUCCESS

\* the value of the n-th read of rng_isr: the hardware keeps its last status
IsrRead(isr, n) == isr[Min(n, Len(isr))]
HealthTestFailed(v) == (v \div 2) % 8 # 0
EhrValid(v) == v % 2 = 1

\* the do ... while of trng_get_random, from the p-th read of rng_isr with
\* attempt_count = n: the final attempt_count and the number of reads
RECURSIVE TrngPoll(_, _, _)
TrngPoll(isr, p, n) ==
    LET failed == HealthTestFailed(IsrRead(isr, p))
        n1 == IF failed THEN n + 1 ELSE n
    IN  IF (~ EhrValid(IsrRead(isr, p + 1))) /\ n1 < CC3XX_CONFIG_RNG_MAX_ATTEMPTS
        THEN TrngPoll(isr, p + 2, n1)
        ELSE [attempt_count |-> n1, reads |-> p + 1]

\* the values of rng_isr read during one trng_get_random that sees k health
\* test failures: the failure (AUTOCORR_ERR) is seen by the first read of an
\* iteration, EHR_VALID by the second
RECURSIVE IsrScript(_)
IsrScript(k) ==
    IF k = 0 THEN <<0, 1>> ELSE <<2, 0>> \o IsrScript(k - 1)

\* the content of ehr_data after the n-th collection of entropy: two
\* patterns, both different from one collection to the next
EhrData(d, n) ==
    [i \in 1..SizeofEntropyBuf |->
        IF d = 1 THEN (SizeofEntropyBuf * n + i) % 256
        ELSE 255 - ((SizeofEntropyBuf * n + 5 * i) % 256)]

\* what the hardware answers to the next trng_get_random of the call: m.env
\* says which of the call's readings (fail_at, 0 for none) sees k health test
\* failures and which pattern (d) the entropy of the call has
NextReading(m) ==
    [isr |-> IsrScript(IF m.readings + 1 = m.env.fail_at THEN m.env.k ELSE 0),
     ehr_data |-> EhrData(m.env.d,
                          Len(m.stream[CC3XX_RNG_CRYPTOGRAPHICALLY_SECURE])
                              \div SizeofEntropyBuf)]

\* a slip: > for ==
TooManyAttempts_gt(attempt_count) ==
    attempt_count > CC3XX_CONFIG_RNG_MAX_ATTEMPTS

\* if (attempt_count == CC3XX_CONFIG_RNG_MAX_ATTEMPTS)
TooManyAttempts(attempt_count) ==
    attempt_count = CC3XX_CONFIG_RNG_MAX_ATTEMPTS

\* a slip: the last word of ehr_data is not copied
EhrCopy_short(buf, ehr_data, idx) ==
    SubSeq(ehr_data, 1, WORD * (EHR_WORDS - 1))
        \o SubSeq(buf, WORD * (EHR_WORDS - 1) + 1, Len(buf))

\* the for loop of trng_get_random: buf[idx] = ehr_data[idx]
RECURSIVE EhrCopy(_, _, _)
EhrCopy(buf, ehr_data, idx) ==
    IF idx >= EHR_WORDS THEN buf
    ELSE EhrCopy(SubSeq(buf, 1, WORD * idx)
                     \o SubSeq(ehr_data, WORD * idx + 1, WORD * idx + WORD)
                     \o SubSeq(buf, WORD * idx + WORD + 1, Len(buf)),
                 ehr_data, idx + 1)

\* trng_get_random after its do ... while, which has left poll
TrngPolled(m0, ehr_data, poll) ==
    LET m1 == [Logged(m0, Ev("trng_get_random", "", poll.attempt_count,
                             poll.reads))
                 EXCEPT !.readings = @ + 1,
                        !.rng = IF poll.attempt_count > 0
                                THEN [@ EXCEPT !.rst_bits_counter = 1,
                                               !.rng_icr = "0x3F"]
                                ELSE @]
    IN  IF TooManyAttempts(poll.attempt_count)
        THEN [m |-> FATAL_ERR(trng_finish(m1), CC3XX_ERR_RNG_TOO_MANY_ATTEMPTS),
              err |-> CC3XX_ERR_RNG_TOO_MANY_ATTEMPTS]
        ELSE [m |-> [Generated(Logged(m1, Ev("ehr_data", "", 0, EHR_WORDS)),
                               CC3XX_RNG_CRYPTOGRAPHICALLY_SECURE, ehr_data)
                       EXCEPT !.rng = [@ EXCEPT !.rst_bits_counter = 1,
                                                !.rng_icr = "0xFFFFFFFF"],
                              !.entropy_buf = EhrCopy(@, ehr_data, 0)],
              err |-> CC3XX_ERR_SUCCESS]

\* trng_get_random(entropy_buf, EHR_WORDS)
trng_get_random(m0) ==
    TrngPolled(m0, NextReading(m0).ehr_data, TrngPoll(NextReading(m0).isr, 1, 0))

(***************************************************************************)
(* The pools, selected by quality as the switch of                         *)
(* cc3xx_lowlevel_rng_get_random does                                      *)
(***************************************************************************)
Qualities == {CC3XX_RNG_CRYPTOGRAPHICALLY_SECURE, CC3XX_RNG_FAST}

max_buf_size(q) ==
    IF q = CC3XX_RNG_CRYPTOGRAPHICALLY_SECURE THEN SizeofEntropyBuf
    ELSE SizeofLfsrBuf
random_buf(m, q) ==
    IF q = CC3XX_RNG_CRYPTOGRAPHICALLY_SECURE THEN m.entropy_buf ELSE m.lfsr_buf
used_idx(m, q) ==
    IF q = CC3XX_RNG_CRYPTOGRAPHICALLY_SECURE THEN m.entropy_buf_used_idx
    ELSE m.lfsr_buf_used_idx
\* *used_idx = v, in the alignment step, after a refill or after a copy
SetUsedIdx(m, q, v, why) ==
    IF q = CC3XX_RNG_CRYPTOGRAPHICALLY_SECURE
    THEN [Logged(m, Ev(why, q, m.entropy_buf_used_idx, v))
            EXCEPT !.entropy_buf_used_idx = v]
    ELSE [Logged(m, Ev(why, q, m.lfsr_buf_used_idx, v))
            EXCEPT !.lfsr_buf_used_idx = v]

\* a slip: the alignment step is left out
Align_skipped(m, q, v) == m

\* *used_idx = round_up(*used_idx, sizeof(uint32_t))
Align(m, q, v) ==
    SetUsedIdx(Taken(m, q, SubSeq(random_buf(m, q), used_idx(m, q) + 1, v)),
               q, v, "align")

\* the return of cc3xx_lowlevel_rng_get_random
Returned(m, q, err, out) ==
    IF err = CC3XX_ERR_SUCCESS
    THEN Taken(Logged(m, Ev("return", q, 0, Len(out))), q, out)
    ELSE Logged(m, Ev("return", q, 1, Len(out)))

\* a slip: || for &&
RequestIsWordAligned_or(buf_aligned, length) ==
    buf_aligned \/ length % 4 = 0

\* request_is_word_aligned =
\*     ((uintptr_t)buf & 0x3) == 0 && (length & 0x3) == 0
RequestIsWordAligned(buf_aligned, length) ==
    buf_aligned /\ length % 4 = 0

\* the bytes of dst from position pos on replaced by those of src
Store(dst, pos, src) ==
    SubSeq(dst, 1, pos - 1) \o src \o SubSeq(dst, pos + Len(src), Len(dst))

\* the copy of one chunk: word by word from the word *used_idx / 4 on when the
\* request is word aligned, memcpy otherwise
CopyChunk(m, q, dst, pos, copy_size, request_is_word_aligned) ==
    IF request_is_word_aligned
    THEN Store(dst, pos,
               SubSeq(random_buf(m, q), WORD * (used_idx(m, q) \div WORD) + 1,
                      WORD * (used_idx(m, q) \div WORD)
                          + WORD * (copy_size \div WORD)))
    ELSE Store(dst, pos,
               SubSeq(random_buf(m, q), used_idx(m, q) + 1,
                      used_idx(m, q) + copy_size))

\* a slip: temp0 >> 17 for temp0 >> 18
XorshiftTemps_shr17(s0, s1) ==
    LET a == Xor(s0, Shl(s0, 23, 64))
        b == Xor(a, Shr(a, 17))
    IN  [temp0 |-> Xor(b, Xor(s1, Shr(s1, 5))), temp1 |-> s1]

\* temp0 and temp1 after the three xor steps
XorshiftTemps(s0, s1) ==
    LET a == Xor(s0, Shl(s0, 23, 64))
        b == Xor(a, Shr(a, 18))
    IN  [temp0 |-> Xor(b, Xor(s1, Shr(s1, 5))), temp1 |-> s1]

\* the state the draw leaves and the value it returns
XorshiftOut(t) ==
    [state |-> BytesOf(t.temp1, 8) \o BytesOf(t.temp0, 8),
     value |-> Add(t.temp0, t.temp1, 64)]

\* one draw of the xorshift+ generator from state (two little endian 64 bit
\* words): the new state and the value returned
XorshiftStep(state) ==
    XorshiftOut(XorshiftTemps(BitsOf(SubSeq(state, 1, 8)),
                              BitsOf(SubSeq(state, 9, 16))))

RECURSIVE get_random_loop(_, _, _, _, _, _)
RECURSIVE cc3xx_lowlevel_rng_get_random(_, _, _, _)

\* a slip: lfsr_seed_done is never set
SeedLfsr_unmarked(m, seed) == [m EXCEPT !.state = seed]

\* the seed has been stored to state: lfsr_seed_done = true
SeedLfsr(m, seed) == [m EXCEPT !.state = seed, !.lfsr_seed_done = TRUE]

\* xorshift_plus_128_lfsr from temp0 = state[0] on, step being the draw
Xorshifted(m, step) ==
    [m |-> [Logged(m, Ev("xorshift", "", 0, 0)) EXCEPT !.state = step.state],
     value |-> step.value]

\* a variant: a seed that is all zero is replaced by a constant
LfsrSeeded_fallback(seed) ==
    LET out == IF seed.out = Zeros(16) THEN [i \in 1..16 |-> 1] ELSE seed.out
    IN  IF seed.m.halted
        THEN [m |-> [seed.m EXCEPT !.state = out], value |-> {}]
        ELSE Xorshifted(SeedLfsr(seed.m, out), XorshiftStep(out))

\* xorshift_plus_128_lfsr after the request for the seed, seed, which has
\* written to state
LfsrSeeded(seed) ==
    IF seed.m.halted
    THEN [m |-> [seed.m EXCEPT !.state = seed.out], value |-> {}]
    ELSE Xorshifted(SeedLfsr(seed.m, seed.out), XorshiftStep(seed.out))

\* a slip: lfsr_seed_done is not tested, every draw asks for a seed
xorshift_plus_128_lfsr_reseeding(m0) ==
    LfsrSeeded(cc3xx_lowlevel_rng_get_random(
                   Logged(m0, Ev("seed", "", 0, 0)), m0.state, TRUE,
                   CC3XX_RNG_CRYPTOGRAPHICALLY_SECURE))

\* a slip: no seed is ever asked for
xorshift_plus_128_lfsr_unseeded(m0) == Xorshifted(m0, XorshiftStep(m0.state))

xorshift_plus_128_lfsr(m0) ==
    IF m0.lfsr_seed_done THEN Xorshifted(m0, XorshiftStep(m0.state))
    ELSE LfsrSeeded(cc3xx_lowlevel_rng_get_random(
                        Logged(m0, Ev("seed", "", 0, 0)), m0.state, TRUE,
                        CC3XX_RNG_CRYPTOGRAPHICALLY_SECURE))

\* *(uint64_t *)buf = r.value
LfsrStored(r) ==
    IF r.m.halted THEN [m |-> r.m, err |-> "halted"]
    ELSE [m |-> [Generated(r.m, CC3XX_RNG_FAST, BytesOf(r.value, 8))
                    EXCEPT !.lfsr_buf = BytesOf(r.value, 8)],
          err |-> CC3XX_ERR_SUCCESS]

lfsr_get_random(m0) == LfsrStored(xorshift_plus_128_lfsr(m0))

\* a slip: both pools are refilled by the TRNG
random_fn_trng(m, q) == trng_get_random(m)

random_fn(m, q) ==
    IF q = CC3XX_RNG_CRYPTOGRAPHICALLY_SECURE THEN trng_get_random(m)
    ELSE lfsr_get_random(m)

\* the loop from copy_size = ... on, then its next iterations
CopyOut(m, q, dst, pos, length, request_is_word_aligned, copy_size) ==
    get_random_loop(SetUsedIdx(m, q, used_idx(m, q) + copy_size, "copy"), q,
                    CopyChunk(m, q, dst, pos, copy_size, request_is_word_aligned),
                    pos + copy_size, length - copy_size, request_is_word_aligned)

\* the loop after err = random_fn(...), r being what random_fn has left
Refilled(r, q, dst, pos, length, request_is_word_aligned) ==
    IF r.err # CC3XX_ERR_SUCCESS
    THEN [m |-> r.m, err |-> r.err, out |-> dst]
    ELSE CopyOut(SetUsedIdx(r.m, q, 0, "refill"), q, dst, pos, length,
                 request_is_word_aligned, Min(max_buf_size(q), length))

\* the while (length > 0) loop; pos is the offset of buf in the caller's
\* buffer dst
get_random_loop(m0, q, dst, pos, length, request_is_word_aligned) ==
    IF length = 0 THEN [m |-> m0, err |-> CC3XX_ERR_SUCCESS, out |-> dst]
    ELSE IF used_idx(m0, q) = max_buf_size(q)
    THEN Refilled(random_fn(m0, q), q, dst, pos, length, request_is_word_aligned)
    ELSE CopyOut(m0, q, dst, pos, length, request_is_word_aligned,
                 Min(max_buf_size(q) - used_idx(m0, q), length))

\* a slip: <= for <
rng_required_le(m, q, length) == max_buf_size(q) - used_idx(m, q) <= length

\* a slip: every request starts the TRNG
rng_required_always(m, q, length) == TRUE

\* a slip: the request never starts the TRNG
rng_required_never(m, q, length) == FALSE

\* rng_required = max_buf_size - *used_idx < length
rng_required(m, q, length) == max_buf_size(q) - used_idx(m, q) < length

\* cc3xx_lowlevel_rng_get_random from out: on, r being what the loop has
\* left and started whether trng_init was called
GetRandomOut(r, started, quality) ==
    IF r.m.halted THEN [m |-> r.m, err |-> "halted", out |-> r.out]
    ELSE IF started
    THEN [m |-> Returned(trng_finish(r.m), quality, TrngFinishErr, r.out),
          err |-> TrngFinishErr, out |-> r.out]
    ELSE [m |-> Returned(r.m, quality, r.err, r.out),
          err |-> r.err, out |-> r.out]

\* cc3xx_lowlevel_rng_get_random from rng_required = ... on
GetRandomAligned(m1, dst, request_is_word_aligned, quality, started) ==
    GetRandomOut(get_random_loop(IF started THEN trng_init(m1) ELSE m1,
                                 quality, dst, 1, Len(dst),
                                 request_is_word_aligned),
                 started, quality)

\* cc3xx_lowlevel_rng_get_random after the switch
GetRandomSelected(m1, dst, request_is_word_aligned, quality) ==
    GetRandomAligned(m1, dst, request_is_word_aligned, quality,
                     rng_required(m1, quality, Len(dst))
                         /\ quality = CC3XX_RNG_CRYPTOGRAPHICALLY_SECURE)

\* a slip: a quality without a case is served like CC3XX_RNG_FAST
SwitchDefault_never(quality) == FALSE

\* switch (quality) takes the default case
SwitchDefault(quality) == quality \notin Qualities

\* cc3xx_lowlevel_rng_get_random(buf, length, quality): dst is the caller's
\* buffer of length bytes before the call, buf_aligned says whether
\* ((uintptr_t)buf & 0x3) == 0.  The result holds the machine, the value
\* returned ("halted" when the call never returns) and the buffer
cc3xx_lowlevel_rng_get_random(m0, dst, buf_aligned, quality) ==
    IF SwitchDefault(quality)
    THEN [m |-> m0, err |-> CC3XX_ERR_RNG_INVALID_RNG, out |-> dst]
    ELSE IF RequestIsWordAligned(buf_aligned, Len(dst))
    THEN GetRandomSelected(Align(m0, quality,
                                 round_up(used_idx(m0, quality), WORD)),
                           dst, TRUE, quality)
    ELSE GetRandomSelected(m0, dst, FALSE, quality)

(***************************************************************************)
(* cc3xx_lowlevel_rng_get_random_uint.  bound is a 32 bit word; value is   *)
(* the local the draws are stored to, which starts with whatever the stack *)
(* holds.                                                                  *)
(***************************************************************************)
\* a slip: the mask of every bound but 0 is got by shifting
UintMask_shifted(bound) ==
    IF bound = {} THEN Dec(bound, 32) ELSE Shr(0..31, Clz(bound))

\* a slip: the mask is always got by subtracting one
UintMask_dec(bound) == Dec(bound, 32)

UintMask(bound) ==
    IF And(bound, Dec(bound, 32)) = {} THEN Dec(bound, 32)
    ELSE Shr(0..31, Clz(bound))

\* a slip: > for >=
Rejected_gt(value, bound) == value # bound /\ Geq(value, bound)

\* while (value >= bound)
Rejected(value, bound) == Geq(value, bound)

RECURSIVE get_random_uint_loop(_, _, _, _, _, _)

\* the sampler gives up: mf is what FATAL_ERR has left
UintGaveUp(mf) ==
    [m |-> mf,
     err |-> IF mf.halted THEN "halted" ELSE CC3XX_ERR_RNG_TOO_MANY_ATTEMPTS,
     written |-> FALSE, uint |-> {}]

\* the do ... while from attempts += 1 on, value being value & mask
UintMasked(m, bound, mask, value, attempts, quality) ==
    IF attempts + 1 >= CC3XX_CONFIG_RNG_MAX_ATTEMPTS
    THEN UintGaveUp(FATAL_ERR(Logged(m, Ev("masked", quality,
                                           IF Rejected(value, bound) THEN 1
                                           ELSE 0, 0)),
                              CC3XX_ERR_RNG_TOO_MANY_ATTEMPTS))
    ELSE IF Rejected(value, bound)
    THEN get_random_uint_loop(Logged(m, Ev("masked", quality, 1, 0)), bound,
                              mask, BytesOf(value, 4), attempts + 1, quality)
    ELSE [m |-> Logged(m, Ev("masked", quality, 0, 0)),
          err |-> CC3XX_ERR_SUCCESS, written |-> TRUE, uint |-> value]

\* the do ... while after the draw, r being what the draw has left
UintDrawn(r, bound, mask, attempts, quality) ==
    IF r.m.halted
    THEN [m |-> r.m, err |-> "halted", written |-> FALSE, uint |-> {}]
    ELSE IF r.err # CC3XX_ERR_SUCCESS
    THEN [m |-> r.m, err |-> r.err, written |-> FALSE, uint |-> {}]
    ELSE UintMasked(r.m, bound, mask, And(BitsOf(r.out), mask), attempts,
                    quality)

\* the do ... while: value is the content of the local before the draw
get_random_uint_loop(m0, bound, mask, value, attempts, quality) ==
    UintDrawn(cc3xx_lowlevel_rng_get_random(
                  Logged(m0, Ev("draw", quality, attempts, 0)), value, TRUE,
                  quality),
              bound, mask, attempts, quality)

\* assert(bound != 0) fails: the program is aborted
AssertFailed(m) ==
    [m |-> [Logged(m, Ev("assert", "", 0, 0)) EXCEPT !.halted = TRUE],
     err |-> "halted", written |-> FALSE, uint |-> {}]

\* a build with NDEBUG (m0.asserts is FALSE) has no assert
cc3xx_lowlevel_rng_get_random_uint(m0, bound, stack, quality) ==
    IF m0.asserts /\ bound = {}
    THEN AssertFailed(m0)
    ELSE get_random_uint_loop(m0, bound, UintMask(bound), stack, 0, quality)

(***************************************************************************)
(* cc3xx_lowlevel_rng_get_random_permutation and fisher_yates_shuffle.     *)
(* permutation_buf is an array of uint8_t, kept as a sequence whose        *)
(* element idx + 1 is permutation_buf[idx].                                *)
(***************************************************************************)
\* a slip: every element is set to 0
PermInitStore_zero(permutation_buf, idx) ==
    [permutation_buf EXCEPT ![idx + 1] = 0]

\* permutation_buf[idx] = idx: a uint32_t stored to a uint8_t
PermInitStore(permutation_buf, idx) ==
    [permutation_buf EXCEPT ![idx + 1] = idx % UINT8_VALUES]

\* what cc3xx_lowlevel_rng_get_random_uint(bound, &swap_idx, quality) can
\* return to the shuffle: success with a value below bound in swap_idx, or,
\* in a build whose FATAL_ERR returns, an error that leaves swap_idx as it
\* was.  Of a bound above MaxPermLen one result is followed: the largest
\* value
SamplerResults(bound, returns) ==
    IF bound > MaxPermLen
    THEN {[err |-> CC3XX_ERR_SUCCESS, swap_idx |-> bound - 1]}
    ELSE {[err |-> CC3XX_ERR_SUCCESS, swap_idx |-> v] : v \in 0..(bound - 1)}
         \cup IF returns
              THEN {[err |-> CC3XX_ERR_RNG_TOO_MANY_ATTEMPTS,
                     swap_idx |-> UNWRITTEN]}
              ELSE {}

\* a slip: the bound leaves out the element at idx
SamplerBound_short(len, idx) == len - idx - 1

\* the bound of the sampler call of iteration idx: len - idx
SamplerBound(len, idx) == len - idx

\* a slip: the offset is not added to idx
SwapIdx_no_add(idx, swap_idx) == swap_idx

\* swap_idx += idx, which cannot wrap: swap_idx < len - idx
SwapIdx(idx, swap_idx) == swap_idx + idx

\* a slip: the element saved is read after it was overwritten
Swap_no_temp(permutation_buf, idx, swap_idx) ==
    [permutation_buf EXCEPT ![idx + 1] = permutation_buf[swap_idx + 1]]

\* temp_elem = permutation_buf[idx];
\* permutation_buf[idx] = permutation_buf[swap_idx];
\* permutation_buf[swap_idx] = temp_elem
Swap(permutation_buf, idx, swap_idx) ==
    [permutation_buf EXCEPT ![idx + 1] = permutation_buf[swap_idx + 1],
                            ![swap_idx + 1] = permutation_buf[idx + 1]]

\* a slip: err is not tested, a failed call swaps with element 0
ShuffleIteration_unchecked(permutation_buf, idx, sample) ==
    IF sample.err # CC3XX_ERR_SUCCESS THEN Swap(permutation_buf, idx, 0)
    ELSE Swap(permutation_buf, idx, SwapIdx(idx, sample.swap_idx))

\* one iteration of the for loop of fisher_yates_shuffle, sample being what
\* the sampler has returned
ShuffleIteration(permutation_buf, idx, sample) ==
    IF sample.err # CC3XX_ERR_SUCCESS THEN permutation_buf
    ELSE Swap(permutation_buf, idx, SwapIdx(idx, sample.swap_idx))

\* the for loop of fisher_yates_shuffle from idx on, samples[idx + 1] being
\* what the sampler returns in iteration idx
RECURSIVE fisher_yates_from(_, _, _, _)
fisher_yates_from(permutation_buf, len, idx, samples) ==
    IF idx > len - 1 THEN permutation_buf
    ELSE fisher_yates_from(ShuffleIteration(permutation_buf, idx,
                                            samples[idx + 1]),
                           len, idx + 1, samples)

(***************************************************************************)
(* State                                                                   *)
(***************************************************************************)
VARIABLES
    lfsr_seed_done, lfsr_buf, lfsr_buf_used_idx,    \* statics of cc3xx_rng.c
    entropy_buf, entropy_buf_used_idx,
    state,              \* static state[2] of xorshift_plus_128_lfsr
    rng,                \* P_CC3XX->rng
    halt_on_fatal,      \* whether FATAL_ERR halts in this build: "yes", "no",
                        \* or "unobserved" as long as no FATAL_ERR was run
    assert_enabled,     \* whether assert is compiled in: "yes", "no", or
                        \* "unobserved" as long as no assert has failed or
                        \* would have
    halted,             \* FATAL_ERR has halted the core, or abort
    stream, taken,      \* history, see Generated and Taken
    ncalls,             \* number of API calls made
    call,               \* the last API call: arguments, result and trace
    permutation,        \* a cc3xx_lowlevel_rng_get_random_permutation under
                        \* way: its arguments, locals and position
    uint_mask,          \* the computation of the mask of
                        \* cc3xx_lowlevel_rng_get_random_uint: bound and mask
    trng_poll,          \* a trng_get_random under way: its position, its
                        \* attempt_count and the rng_isr of the hardware
    lfsr_draw,          \* the draws of xorshift_plus_128_lfsr from a seeded
                        \* state: the state, the state before the last draw
                        \* and the value that draw has returned
    hash_op,            \* a psa_hash_operation_t of thin_psa_crypto_core.c
                        \* and the last call made on it
    key_store,          \* g_key_slot and key_id_counter of
                        \* thin_psa_crypto_core.c and the last call made
    boot_hal            \* the loading of an image through boot_hal_bl2.c:
                        \* the ATU regions, the SCP and the calls made

\* the variables of the calls made one after the other, and those of the
\* functions followed statement by statement
driver == <<lfsr_seed_done, lfsr_buf, lfsr_buf_used_idx, entropy_buf,
            entropy_buf_used_idx, state, rng, halt_on_fatal, assert_enabled,
            halted, stream, taken, ncalls, call>>
\* the variables outside cc3xx_rng.c, and those of cc3xx_rng.c
others == <<hash_op, key_store, boot_hal>>
rng_vars == <<driver, permutation, uint_mask, trng_poll, lfsr_draw>>
stepped == <<permutation, uint_mask, trng_poll, lfsr_draw, others>>
vars == <<driver, stepped>>

Statics ==
    [lfsr_seed_done |-> lfsr_seed_done,
     lfsr_buf |-> lfsr_buf,
     lfsr_buf_used_idx |-> lfsr_buf_used_idx,
     entropy_buf |-> entropy_buf,
     entropy_buf_used_idx |-> entropy_buf_used_idx,
     state |-> state]

\* the machine a call starts on: env is what the hardware will answer and
\* what the stack holds, halts whether FATAL_ERR halts
Machine(env, halts) ==
    [lfsr_seed_done |-> lfsr_seed_done,
     lfsr_buf |-> lfsr_buf,
     lfsr_buf_used_idx |-> lfsr_buf_used_idx,
     entropy_buf |-> entropy_buf,
     entropy_buf_used_idx |-> entropy_buf_used_idx,
     state |-> state,
     rng |-> rng,
     halt_on_fatal |-> halts,
     asserts |-> assert_enabled # "no",
     halted |-> halted,
     stream |-> stream,
     taken |-> taken,
     env |-> env,
     readings |-> 0,
     log |-> << >>]

HasFatal(log) == \E i \in DOMAIN log : log[i].ev = "FATAL_ERR"

\* the call is over: r.m is the machine it leaves, r.call what is known of it
Commit(r) ==
    /\ r.m.env.fail_at <= r.m.readings
    /\ lfsr_seed_done' = r.m.lfsr_seed_done
    /\ lfsr_buf' = r.m.lfsr_buf
    /\ lfsr_buf_used_idx' = r.m.lfsr_buf_used_idx
    /\ entropy_buf' = r.m.entropy_buf
    /\ entropy_buf_used_idx' = r.m.entropy_buf_used_idx
    /\ state' = r.m.state
    /\ rng' = r.m.rng
    /\ halted' = r.m.halted
    /\ halt_on_fatal' = IF ~ HasFatal(r.m.log) THEN halt_on_fatal
                        ELSE IF r.m.halt_on_fatal THEN "yes" ELSE "no"
    /\ assert_enabled' =
           IF r.call.op = "get_random_uint" /\ r.call.bound = {}
           THEN IF r.m.asserts THEN "yes" ELSE "no"
           ELSE assert_enabled
    /\ stream' = r.m.stream
    /\ taken' = r.m.taken
    /\ ncalls' = ncalls + 1
    /\ call' = [r.call EXCEPT !.log = r.m.log, !.env = r.m.env,
                              !.pre = Statics, !.pre_rng = rng]
    /\ UNCHANGED stepped

\* the hardware passes every health test
EnvGood(d) == [d |-> d, fail_at |-> 0, k |-> 0, stack |-> <<0, 0, 0, 0>>]

NoCall ==
    [op |-> "none", quality |-> "", length |-> 0, buf_aligned |-> FALSE,
     bound |-> {}, err |-> "", out |-> << >>, written |-> FALSE, uint |-> {},
     log |-> << >>, env |-> EnvGood(1), pre |-> StaticsInit,
     pre_rng |-> RngReset]

\* no permutation was asked for
NoPermutation ==
    [pc |-> "none", dpa |-> FALSE, returns |-> FALSE, len |-> 0,
     quality |-> "", permutation_buf |-> << >>, idx |-> 0, samples |-> << >>,
     bounds |-> << >>]

\* no mask was computed
NoMask == [pc |-> "none", bound |-> {}, mask |-> {}]

\* no trng_get_random is followed
NoPoll ==
    [pc |-> "none", returns |-> FALSE, attempt_count |-> 0, rng_isr |-> 0,
     exit_isr |-> 0]

\* no draw of the fast generator is followed
NoDraw == [pc |-> "none", state |-> Zeros(16), prev |-> Zeros(16),
           value |-> {}, draws |-> 0]

\* no hash operation, key store or image loading is followed
NoHash ==
    [pc |-> "none", asserts |-> FALSE, id |-> 0, op |-> "", pre_id |-> 0,
     alg_is_hash |-> FALSE, status |-> "", driver |-> << >>, ncalls |-> 0]
NoKeys ==
    [pc |-> "none", asserts |-> FALSE, ecc |-> FALSE, key_id |-> {},
     is_valid |-> FALSE, buf |-> "NULL", op |-> "", key |-> {},
     pre_key_id |-> {}, pre_valid |-> FALSE, returned |-> {},
     status |-> "", start |-> {}, handed |-> {}, pre_handed |-> {},
     wrapped |-> FALSE, ncalls |-> 0]
NoBoot ==
    [pc |-> "none", atu |-> {}, atu_ap |-> FALSE, hdr_zero |-> {},
     scp_released |-> FALSE, mhu_irq |-> FALSE, fn |-> "", image |-> "",
     ret |-> 0, log |-> << >>,
     prev |-> [fn |-> "", image |-> "", ret |-> 0], ncalls |-> 0]
OthersIdle == hash_op = NoHash /\ key_store = NoKeys /\ boot_hal = NoBoot

InitDriver ==
    /\ lfsr_seed_done = StaticsInit.lfsr_seed_done
    /\ lfsr_buf = StaticsInit.lfsr_buf
    /\ lfsr_buf_used_idx = StaticsInit.lfsr_buf_used_idx
    /\ entropy_buf = StaticsInit.entropy_buf
    /\ entropy_buf_used_idx = StaticsInit.entropy_buf_used_idx
    /\ state = StaticsInit.state
    /\ rng = RngReset
    /\ halt_on_fatal = "unobserved"
    /\ assert_enabled = "unobserved"
    /\ halted = FALSE
    /\ stream = [q \in Qualities |-> << >>]
    /\ taken = [q \in Qualities |-> << >>]
    /\ ncalls = 0
    /\ call = NoCall

\* nothing of cc3xx_rng.c has run
RngIdle ==
    /\ InitDriver
    /\ permutation = NoPermutation
    /\ uint_mask = NoMask
    /\ trng_poll = NoPoll
    /\ lfsr_draw = NoDraw

Init ==
    /\ InitDriver
    /\ permutation = NoPermutation
    /\ uint_mask = NoMask
    /\ trng_poll = NoPoll
    /\ lfsr_draw = NoDraw
    /\ OthersIdle

(***************************************************************************)
(* What the callers and the environment may do                             *)
(***************************************************************************)
\* a call makes at most MaxReadings calls of trng_get_random
MaxReadings == (WORD * MaxWords) \div SizeofEntropyBuf + 1

\* what an uninitialised local may hold
StackWords == {<<0, 0, 0, 0>>, <<255, 255, 255, 255>>}

\* the answers of the hardware during one call: all good, or the first
\* reading sees fewer than CC3XX_CONFIG_RNG_MAX_ATTEMPTS health test failures,
\* or one of the readings in at sees that many, on a stack that holds one of
\* stacks
Envs(at, stacks) ==
    {EnvGood(d) : d \in 1..2} \cup
    {[d |-> 1, fail_at |-> 1, k |-> k, stack |-> <<0, 0, 0, 0>>] :
        k \in 1..(CC3XX_CONFIG_RNG_MAX_ATTEMPTS - 1)} \cup
    {[d |-> 1, fail_at |-> i, k |-> CC3XX_CONFIG_RNG_MAX_ATTEMPTS, stack |-> w] :
        i \in at, w \in stacks}

ReqLengths == {0, 1, 4, 20, WORD * MaxWords}

\* the bounds asked of the sampler: 1, 10, 2^31, 2^32 - 1
Bounds ==
    {BitsOf(b) : b \in {<<1, 0, 0, 0>>, <<10, 0, 0, 0>>, <<0, 0, 0, 128>>,
                        <<255, 255, 255, 255>>}}

\* the same and 0, which the callers are asked not to pass
AnyBounds == Bounds \cup {BitsOf(<<0, 0, 0, 0>>)}

\* the builds a call with this bound is made in: with and without NDEBUG
\* when the bound is 0 and no earlier call has shown which it is
AssertBuilds(bound) ==
    IF bound = {} /\ assert_enabled = "unobserved" THEN BOOLEAN
    ELSE {assert_enabled # "no"}

(***************************************************************************)
(* The API calls.  A call that never reads the hardware is made in one     *)
(* environment, any other in all of them; a call that runs FATAL_ERR is    *)
(* made in both kinds of build, unless an earlier FATAL_ERR has shown the  *)
(* kind.                                                                   *)
(***************************************************************************)
\* the environments to make a call in, dry being the call made in EnvGood(1)
\* and envs the environments of a call that reads the hardware
EnvsOf(dry, envs) == IF dry.m.readings = 0 THEN {EnvGood(1)} ELSE envs

\* r is the call in a build whose FATAL_ERR returns, rh the same call in a
\* build whose FATAL_ERR halts
Perform(r, rh) ==
    \/ Commit(r)
    \/ /\ HasFatal(r.m.log)
       /\ halt_on_fatal = "unobserved"
       /\ Commit(rh)

\* what is known of a call of cc3xx_lowlevel_rng_get_random that has left r
GetRandomDone(r, quality, length, buf_aligned) ==
    [m |-> r.m,
     call |-> [NoCall EXCEPT !.op = "get_random",
                             !.quality = quality,
                             !.length = length,
                             !.buf_aligned = buf_aligned,
                             !.err = r.err,
                             !.out = r.out]]

GetRandomCall(quality, length, buf_aligned, env, halts) ==
    GetRandomDone(cc3xx_lowlevel_rng_get_random(Machine(env, halts),
                                                Unwritten(length),
                                                buf_aligned, quality),
                  quality, length, buf_aligned)

\* a call of cc3xx_lowlevel_rng_get_random with a quality of qualities
GetRandomOf(qualities) ==
    /\ ncalls < MaxCalls
    /\ ~ halted
    /\ \E quality \in qualities, length \in ReqLengths, buf_aligned \in BOOLEAN :
        \E env \in EnvsOf(GetRandomCall(quality, length, buf_aligned,
                                        EnvGood(1), FALSE),
                          Envs(1..MaxReadings, {<<0, 0, 0, 0>>})) :
            Perform(GetRandomCall(quality, length, buf_aligned, env, FALSE),
                    GetRandomCall(quality, length, buf_aligned, env, TRUE))

GetRandom == GetRandomOf(Qualities)

\* what is known of a call of cc3xx_lowlevel_rng_get_random_uint that has
\* left r
GetRandomUintDone(r, bound, quality) ==
    [m |-> r.m,
     call |-> [NoCall EXCEPT !.op = "get_random_uint",
                             !.quality = quality,
                             !.bound = bound,
                             !.err = r.err,
                             !.written = r.written,
                             !.uint = r.uint]]

GetRandomUintCall(bound, quality, env, halts, asserts) ==
    GetRandomUintDone(cc3xx_lowlevel_rng_get_random_uint(
                          [Machine(env, halts) EXCEPT !.asserts = asserts],
                          bound, env.stack, quality),
                      bound, quality)

\* a call of cc3xx_lowlevel_rng_get_random_uint with a bound of bounds
GetRandomUintOf(bounds) ==
    /\ ncalls < MaxCalls
    /\ ~ halted
    /\ \E quality \in Qualities, bound \in bounds :
        \E asserts \in AssertBuilds(bound) :
            \E env \in EnvsOf(GetRandomUintCall(bound, quality, EnvGood(1),
                                                FALSE, asserts),
                              Envs({1}, StackWords)) :
                Perform(GetRandomUintCall(bound, quality, env, FALSE, asserts),
                        GetRandomUintCall(bound, quality, env, TRUE, asserts))

GetRandomUint == GetRandomUintOf(Bounds)

Next == GetRandom \/ GetRandomUint

Spec == Init /\ [][Next]_vars

(***************************************************************************)
(* The same calls, the sampler being called with a bound of 0 as well      *)
(***************************************************************************)
GetRandomUintAnyBound == GetRandomUintOf(AnyBounds)

NextAnyBound == GetRandom \/ GetRandomUintAnyBound

SpecAnyBound == Init /\ [][NextAnyBound]_vars

(***************************************************************************)
(* The calls of cc3xx_lowlevel_rng_get_random, the quality being any value *)
(* an enum cc3xx_rng_quality_t can hold                                    *)
(***************************************************************************)
\* a value that is none of the two enumerators
InvalidQuality == "invalid"
AnyQualities == Qualities \cup {InvalidQuality}

GetRandomAnyQuality == GetRandomOf(AnyQualities)

NextAnyQuality == GetRandomAnyQuality

SpecAnyQuality == Init /\ [][NextAnyQuality]_vars

(***************************************************************************)
(* cc3xx_lowlevel_rng_get_random_permutation, statement by statement.  The *)
(* build has CC3XX_CONFIG_DPA_MITIGATIONS_ENABLE or not (dpa) and a        *)
(* FATAL_ERR that returns or not (returns).                                *)
(***************************************************************************)
\* the lengths asked for: the short ones, the longest whose indices fit a
\* uint8_t, and the next
PermLens == (0..MaxPermLen) \cup {UINT8_VALUES, UINT8_VALUES + 1}

InitPermutation ==
    /\ InitDriver
    /\ uint_mask = NoMask
    /\ trng_poll = NoPoll
    /\ lfsr_draw = NoDraw
    /\ OthersIdle
    /\ \E dpa \in BOOLEAN, returns \in BOOLEAN, len \in PermLens,
          quality \in Qualities :
            permutation = [pc |-> "init", dpa |-> dpa, returns |-> returns,
                           len |-> len, quality |-> quality,
                           permutation_buf |-> Unwritten(len), idx |-> 0,
                           samples |-> << >>, bounds |-> << >>]

\* for (idx = 0; idx < len; idx++) permutation_buf[idx] = idx
PermInit ==
    /\ permutation.pc = "init"
    /\ permutation.idx < permutation.len
    /\ permutation' =
        [permutation EXCEPT
            !.permutation_buf = PermInitStore(@, permutation.idx),
            !.idx = @ + 1]
    /\ UNCHANGED <<driver, uint_mask, trng_poll, lfsr_draw, others>>

\* the end of that loop; then fisher_yates_shuffle if the build has it, which
\* returns at once when len == 0
PermInitDone ==
    /\ permutation.pc = "init"
    /\ permutation.idx >= permutation.len
    /\ permutation' =
        [permutation EXCEPT
            !.pc = IF permutation.dpa /\ permutation.len # 0 THEN "shuffle"
                   ELSE "return",
            !.idx = 0]
    /\ UNCHANGED <<driver, uint_mask, trng_poll, lfsr_draw, others>>

\* one iteration of the for loop of fisher_yates_shuffle
ShuffleStep ==
    /\ permutation.pc = "shuffle"
    /\ permutation.idx <= permutation.len - 1
    /\ \E sample \in SamplerResults(SamplerBound(permutation.len,
                                                 permutation.idx),
                                    permutation.returns) :
        permutation' =
            [permutation EXCEPT
                !.permutation_buf = ShuffleIteration(@, permutation.idx, sample),
                !.idx = @ + 1,
                !.samples = Append(@, sample),
                !.bounds = Append(@, SamplerBound(permutation.len,
                                                  permutation.idx))]
    /\ UNCHANGED <<driver, uint_mask, trng_poll, lfsr_draw, others>>

\* the sampler runs FATAL_ERR in a build whose FATAL_ERR does not return
ShuffleHalt ==
    /\ permutation.pc = "shuffle"
    /\ permutation.idx <= permutation.len - 1
    /\ ~ permutation.returns
    /\ permutation' = [permutation EXCEPT !.pc = "halted"]
    /\ UNCHANGED <<driver, uint_mask, trng_poll, lfsr_draw, others>>

\* the end of the for loop of fisher_yates_shuffle
ShuffleDone ==
    /\ permutation.pc = "shuffle"
    /\ permutation.idx > permutation.len - 1
    /\ permutation' = [permutation EXCEPT !.pc = "return"]
    /\ UNCHANGED <<driver, uint_mask, trng_poll, lfsr_draw, others>>

NextPermutation ==
    PermInit \/ PermInitDone \/ ShuffleStep \/ ShuffleHalt \/ ShuffleDone

SpecPermutation == InitPermutation /\ [][NextPermutation]_vars

(***************************************************************************)
(* The mask of cc3xx_lowlevel_rng_get_random_uint, computed for bounds of  *)
(* every bit length                                                        *)
(***************************************************************************)
\* 2^k, 2^k + 1 and 2^(k+1) - 1 for every k of a 32 bit word, and 10
MaskBounds ==
    {{k} : k \in 0..31} \cup {{0, k} : k \in 1..31} \cup {0..k : k \in 0..31}
        \cup {{1, 3}}

InitMask ==
    /\ InitDriver
    /\ permutation = NoPermutation
    /\ trng_poll = NoPoll
    /\ lfsr_draw = NoDraw
    /\ OthersIdle
    /\ \E bound \in MaskBounds :
          uint_mask = [pc |-> "bound", bound |-> bound, mask |-> {}]

\* the if ... else that sets mask
ComputeMask ==
    /\ uint_mask.pc = "bound"
    /\ uint_mask' = [uint_mask EXCEPT !.pc = "mask",
                                      !.mask = UintMask(uint_mask.bound)]
    /\ UNCHANGED <<driver, permutation, trng_poll, lfsr_draw, others>>

NextMask == ComputeMask

SpecMask == InitMask /\ [][NextMask]_vars

(***************************************************************************)
(* trng_get_random, read of rng_isr by read of rng_isr, next to a TRNG     *)
(* that raises the bits of rng_isr when it likes: EHR_VALID (bit 0) and    *)
(* the three health test failures of the mask 0xE (bits 1 to 3).  A bit    *)
(* stays until a write to rng_icr clears it.                               *)
(***************************************************************************)
IsrBits == 0..3

InitPoll ==
    /\ InitDriver
    /\ permutation = NoPermutation
    /\ uint_mask = NoMask
    /\ lfsr_draw = NoDraw
    /\ OthersIdle
    /\ \E returns \in BOOLEAN, isr \in 0..(Pow2(Cardinality(IsrBits)) - 1) :
          trng_poll = [pc |-> "if", returns |-> returns, attempt_count |-> 0,
                       rng_isr |-> isr, exit_isr |-> 0]

\* the TRNG raises a bit of rng_isr
HwRaise ==
    /\ trng_poll.pc \in {"if", "while", "exited"}
    /\ \E j \in IsrBits :
        /\ Bit(trng_poll.rng_isr, j) = 0
        /\ trng_poll' = [trng_poll EXCEPT !.rng_isr = @ + Pow2(j)]
    /\ UNCHANGED <<driver, permutation, uint_mask, lfsr_draw, others>>

\* if (rng_isr & 0xE) { rst_bits_counter = 1; rng_icr = 0x3F; attempt_count++ }
PollIf ==
    /\ trng_poll.pc = "if"
    /\ trng_poll' =
        IF HealthTestFailed(trng_poll.rng_isr)
        THEN [trng_poll EXCEPT !.pc = "while",
                               !.rng_isr = 0,
                               !.attempt_count = @ + 1]
        ELSE [trng_poll EXCEPT !.pc = "while"]
    /\ UNCHANGED <<driver, permutation, uint_mask, lfsr_draw, others>>

\* while ((! (rng_isr & 0x1)) && attempt_count < CC3XX_CONFIG_RNG_MAX_ATTEMPTS)
PollWhile ==
    /\ trng_poll.pc = "while"
    /\ trng_poll' =
        IF (~ EhrValid(trng_poll.rng_isr))
           /\ trng_poll.attempt_count < CC3XX_CONFIG_RNG_MAX_ATTEMPTS
        THEN [trng_poll EXCEPT !.pc = "if"]
        ELSE [trng_poll EXCEPT !.pc = "exited", !.exit_isr = trng_poll.rng_isr]
    /\ UNCHANGED <<driver, permutation, uint_mask, lfsr_draw, others>>

\* if (attempt_count == CC3XX_CONFIG_RNG_MAX_ATTEMPTS): trng_finish, FATAL_ERR
\* and, in a build whose FATAL_ERR returns, the return of the error
PollGiveUp ==
    /\ trng_poll.pc = "exited"
    /\ TooManyAttempts(trng_poll.attempt_count)
    /\ trng_poll' = [trng_poll EXCEPT !.pc = IF trng_poll.returns
                                              THEN "return_error"
                                              ELSE "fatal"]
    /\ UNCHANGED <<driver, permutation, uint_mask, lfsr_draw, others>>

\* rst_bits_counter = 1; rng_icr = 0xFFFFFFFF; the copy of ehr_data; return
PollRead ==
    /\ trng_poll.pc = "exited"
    /\ ~ TooManyAttempts(trng_poll.attempt_count)
    /\ trng_poll' = [trng_poll EXCEPT !.pc = "return_data", !.rng_isr = 0]
    /\ UNCHANGED <<driver, permutation, uint_mask, lfsr_draw, others>>

\* the statements of trng_get_random
PollCpu == PollIf \/ PollWhile \/ PollGiveUp \/ PollRead

NextPoll == HwRaise \/ PollIf \/ PollWhile \/ PollGiveUp \/ PollRead

\* the core keeps running the function; nothing makes the TRNG raise a bit
SpecPoll == InitPoll /\ [][NextPoll]_vars /\ WF_vars(PollCpu)

(***************************************************************************)
(* xorshift_plus_128_lfsr draw by draw, from a state that was seeded       *)
(***************************************************************************)
\* the 64 bit words a seed is made of: 0, single bits at and around the
\* places the shifts move them over the ends of the word, and words with
\* many bits set, which make the addition carry
SeedWords ==
    {{}, {0}, {4}, {17}, {40}, {41}, {63}, 0..63, 32..63, {0, 23, 46}}

InitXorshift ==
    /\ InitDriver
    /\ permutation = NoPermutation
    /\ uint_mask = NoMask
    /\ trng_poll = NoPoll
    /\ OthersIdle
    /\ \E s0 \in SeedWords, s1 \in SeedWords :
          lfsr_draw = [NoDraw EXCEPT !.pc = "seeded",
                                     !.state = BytesOf(s0, 8) \o BytesOf(s1, 8)]

\* what is known after the draw step made from d
XorshiftDrawn(d, step) ==
    [pc |-> "drawn", state |-> step.state, prev |-> d.state,
     value |-> step.value, draws |-> d.draws + 1]

\* one call of xorshift_plus_128_lfsr with lfsr_seed_done = true
XorshiftDraw ==
    /\ lfsr_draw.pc \in {"seeded", "drawn"}
    /\ lfsr_draw.draws < MaxDraws
    /\ lfsr_draw' = XorshiftDrawn(lfsr_draw, XorshiftStep(lfsr_draw.state))
    /\ UNCHANGED <<driver, permutation, uint_mask, trng_poll, others>>

NextXorshift == XorshiftDraw

SpecXorshift == InitXorshift /\ [][NextXorshift]_vars

(***************************************************************************)
(* The hash operations of thin_psa_crypto_core.c.  o is what is followed   *)
(* of a psa_hash_operation_t: its id and the calls of the driver made      *)
(* during the call under way.  The driver wrapper is not part of the       *)
(* sources: a call of it returns any status and leaves any id.             *)
(***************************************************************************)
PSA_SUCCESS == "PSA_SUCCESS"
PSA_ERROR_GENERIC_ERROR == "PSA_ERROR_GENERIC_ERROR"

\* what a call of psa_driver_wrapper_hash_* can answer: the status it
\* returns and the id it leaves in the operation
DriverIds == 0..2
DriverAnswers ==
    {[status |-> st, id |-> id] :
        st \in {PSA_SUCCESS, PSA_ERROR_GENERIC_ERROR}, id \in DriverIds}

\* the call fn of the driver wrapper has answered drv
DriverCalled(o, fn, drv) ==
    [o EXCEPT !.driver = Append(@, fn), !.id = drv.id, !.status = drv.status]

\* a failed assert: abort() unless the build has NDEBUG
AssertAborts(o) == [o EXCEPT !.pc = "aborted"]

\* a slip: operation->id = 0 is left out
hash_abort_keeps_id(o, drv) ==
    IF o.id = 0 THEN [o EXCEPT !.status = PSA_SUCCESS]
    ELSE DriverCalled(o, "abort", drv)

\* psa_hash_abort(operation), drv being what the driver answers if called
hash_abort(o, drv) ==
    IF o.id = 0 THEN [o EXCEPT !.status = PSA_SUCCESS]
    ELSE [DriverCalled(o, "abort", drv) EXCEPT !.id = 0]

\* the end of psa_hash_setup, psa_hash_update and psa_hash_finish: o is
\* what the driver has left, and status is returned after psa_hash_abort
\* when aborts
HashReturns(o, aborts, drv_abort) ==
    IF aborts THEN [hash_abort(o, drv_abort) EXCEPT !.status = o.status]
    ELSE o

\* psa_hash_setup(operation, alg)
hash_setup(o, alg_is_hash, drv, drv_abort) ==
    IF o.asserts /\ (o.id # 0 \/ ~ alg_is_hash) THEN AssertAborts(o)
    ELSE HashReturns(DriverCalled(o, "setup", drv),
                     drv.status # PSA_SUCCESS, drv_abort)

\* psa_hash_update(operation, input, input_length)
hash_update(o, input_length, drv, drv_abort) ==
    IF o.asserts /\ o.id = 0 THEN AssertAborts(o)
    ELSE IF input_length = 0 THEN [o EXCEPT !.status = PSA_SUCCESS]
    ELSE HashReturns(DriverCalled(o, "update", drv),
                     drv.status # PSA_SUCCESS, drv_abort)

\* psa_hash_finish(operation, hash, hash_size, hash_length)
hash_finish(o, drv, drv_abort) ==
    IF o.asserts /\ o.id = 0 THEN AssertAborts(o)
    ELSE HashReturns(DriverCalled(o, "finish", drv), TRUE, drv_abort)

\* a PSA_HASH_OPERATION_INIT operation, in a build with or without NDEBUG
InitHash ==
    /\ RngIdle
    /\ key_store = NoKeys
    /\ boot_hal = NoBoot
    /\ \E asserts \in BOOLEAN :
          hash_op = [NoHash EXCEPT !.pc = "ready", !.asserts = asserts]

\* the operation when the call op begins
HashCall(op, alg_is_hash) ==
    [hash_op EXCEPT !.op = op, !.pre_id = hash_op.id, !.driver = << >>,
                    !.alg_is_hash = alg_is_hash, !.ncalls = @ + 1]

HashCanCall == hash_op.pc = "ready" /\ hash_op.ncalls < MaxHashCalls

PsaHashSetup ==
    /\ HashCanCall
    /\ \E alg_is_hash \in BOOLEAN, drv \in DriverAnswers,
          drv_abort \in DriverAnswers :
          hash_op' = hash_setup(HashCall("setup", alg_is_hash), alg_is_hash,
                                drv, drv_abort)
    /\ UNCHANGED <<rng_vars, key_store, boot_hal>>

PsaHashUpdate ==
    /\ HashCanCall
    /\ \E input_length \in 0..1, drv \in DriverAnswers,
          drv_abort \in DriverAnswers :
          hash_op' = hash_update(HashCall("update", TRUE), input_length,
                                 drv, drv_abort)
    /\ UNCHANGED <<rng_vars, key_store, boot_hal>>

PsaHashFinish ==
    /\ HashCanCall
    /\ \E drv \in DriverAnswers, drv_abort \in DriverAnswers :
          hash_op' = hash_finish(HashCall("finish", TRUE), drv, drv_abort)
    /\ UNCHANGED <<rng_vars, key_store, boot_hal>>

PsaHashAbort ==
    /\ HashCanCall
    /\ \E drv \in DriverAnswers :
          hash_op' = hash_abort(HashCall("abort", TRUE), drv)
    /\ UNCHANGED <<rng_vars, key_store, boot_hal>>

NextHash == PsaHashSetup \/ PsaHashUpdate \/ PsaHashFinish \/ PsaHashAbort

SpecHash == InitHash /\ [][NextHash]_vars

(***************************************************************************)
(* The key store of thin_psa_crypto_core.c in a build without              *)
(* BLX_BUILTIN_KEY_LOADER.  k is what is followed of g_key_slot: key_id (a *)
(* psa_key_id_t, 32 bits), is_valid and whether buf points to key data.    *)
(***************************************************************************)
PSA_KEY_ID_NULL == {}
KeyIdBits == 32

\* assert(g_key_slot.is_valid && (g_key_slot.key_id == key)) holds
KeyIsCurrent(k, key) == k.is_valid /\ k.key_id = key

\* a failed assert of the key store: abort() unless the build has NDEBUG
KeyAssertAborts(k) == [k EXCEPT !.pc = "aborted"]

\* ++g_key_slot.key_id on a psa_key_id_t
NextKeyId(key_id) == Add(key_id, {0}, KeyIdBits)

\* psa_import_key from g_key_slot.buf = data on, id being the new key_id
KeyImported(k, id) ==
    [k EXCEPT !.buf = "data", !.key_id = id, !.returned = id,
              !.is_valid = TRUE, !.status = PSA_SUCCESS,
              !.handed = @ \cup {id},
              !.wrapped = @ \/ id = PSA_KEY_ID_NULL]

\* psa_import_key(attributes, data, data_length, key); uncompressed says
\* whether data[0] == 0x04
import_key(k, uncompressed) ==
    IF k.ecc /\ k.asserts /\ ~ uncompressed THEN KeyAssertAborts(k)
    ELSE KeyImported(k, NextKeyId(k.key_id))

\* psa_get_key_attributes(key, attributes)
get_key_attributes(k, key) ==
    IF k.asserts /\ ~ KeyIsCurrent(k, key) THEN KeyAssertAborts(k)
    ELSE [k EXCEPT !.status = PSA_SUCCESS]

\* psa_destroy_key(key)
destroy_key(k, key) ==
    IF k.asserts /\ ~ KeyIsCurrent(k, key) THEN KeyAssertAborts(k)
    ELSE [k EXCEPT !.buf = "NULL", !.is_valid = FALSE,
                   !.status = PSA_SUCCESS]

\* psa_verify_hash(key, ...), status being what
\* psa_driver_wrapper_verify_hash returns
verify_hash(k, key, status) ==
    IF k.asserts /\ ~ KeyIsCurrent(k, key) THEN KeyAssertAborts(k)
    ELSE [k EXCEPT !.status = status]

\* the identifiers the callers pass and the counter starts from: the first
\* ones and the last ones of a psa_key_id_t
KeyIds == {{}, {0}, {1}, 0..(KeyIdBits - 1), 1..(KeyIdBits - 1)}
\* g_key_slot.key_id when the calls followed begin: PSA_KEY_ID_NULL after
\* load, 2^32 - 1 after that many keys were imported and destroyed
KeyIdsAtStart == {PSA_KEY_ID_NULL, 0..(KeyIdBits - 1)}

InitKeys ==
    /\ RngIdle
    /\ hash_op = NoHash
    /\ boot_hal = NoBoot
    /\ \E asserts \in BOOLEAN, ecc \in BOOLEAN, id \in KeyIdsAtStart :
          key_store = [NoKeys EXCEPT !.pc = "ready", !.asserts = asserts,
                                     !.ecc = ecc, !.key_id = id,
                                     !.pre_key_id = id, !.start = id]

\* the key store when the call op begins with identifier key
KeyCall(op, key) ==
    [key_store EXCEPT !.op = op, !.key = key, !.returned = {},
                      !.pre_key_id = key_store.key_id,
                      !.pre_valid = key_store.is_valid,
                      !.pre_handed = key_store.handed,
                      !.ncalls = @ + 1]

KeysCanCall == key_store.pc = "ready" /\ key_store.ncalls < MaxKeyCalls

PsaImportKey ==
    /\ KeysCanCall
    /\ \E uncompressed \in BOOLEAN :
          key_store' = import_key(KeyCall("import", {}), uncompressed)
    /\ UNCHANGED <<rng_vars, hash_op, boot_hal>>

PsaGetKeyAttributes ==
    /\ KeysCanCall
    /\ \E key \in KeyIds :
          key_store' = get_key_attributes(KeyCall("get_attributes", key), key)
    /\ UNCHANGED <<rng_vars, hash_op, boot_hal>>

PsaDestroyKey ==
    /\ KeysCanCall
    /\ \E key \in KeyIds :
          key_store' = destroy_key(KeyCall("destroy", key), key)
    /\ UNCHANGED <<rng_vars, hash_op, boot_hal>>

PsaVerifyHash ==
    /\ KeysCanCall
    /\ \E key \in KeyIds, status \in {PSA_SUCCESS, PSA_ERROR_GENERIC_ERROR} :
          key_store' = verify_hash(KeyCall("verify", key), key, status)
    /\ UNCHANGED <<rng_vars, hash_op, boot_hal>>

NextKeys ==
    PsaImportKey \/ PsaGetKeyAttributes \/ PsaDestroyKey \/ PsaVerifyHash

SpecKeys == InitKeys /\ [][NextKeys]_vars

(***************************************************************************)
(* boot_hal_bl2.c: what is done before and after an image is loaded        *)
(*                                                                         *)
(* The ATU, MSCP and MHU drivers and host_system_prepare_ap_access are not *)
(* part of the sources followed: a call of one of them succeeds or fails,  *)
(* a call that succeeds has done what its name says, and a call that fails *)
(* has done it or has not.  boot_hal holds the ATU regions that are open,  *)
(* the ATU access permission of the SCP, the images whose header has been  *)
(* zeroed, whether the SCP is out of reset, whether the MHU interrupt of   *)
(* the SCP is enabled, the last call with the calls it made in their       *)
(* order (log), and the call before it (prev).                             *)
(***************************************************************************)
RSE_FIRMWARE_SECURE_ID == "RSE_FIRMWARE_SECURE_ID"
RSE_FIRMWARE_SCP_ID == "RSE_FIRMWARE_SCP_ID"
RSE_FIRMWARE_AP_BL2_ID == "RSE_FIRMWARE_AP_BL2_ID"
\* an image_id that is not below RSE_FIRMWARE_COUNT
RSE_FIRMWARE_COUNT == "RSE_FIRMWARE_COUNT"
ImageIds ==
    {RSE_FIRMWARE_SECURE_ID, RSE_FIRMWARE_SCP_ID, RSE_FIRMWARE_AP_BL2_ID,
     RSE_FIRMWARE_COUNT}

RSE_ATU_IMG_HDR_LOAD_ID == "RSE_ATU_IMG_HDR_LOAD_ID"
RSE_ATU_IMG_CODE_LOAD_ID == "RSE_ATU_IMG_CODE_LOAD_ID"
HOST_SCP_INIT_CTRL_ATU_ID == "HOST_SCP_INIT_CTRL_ATU_ID"
HOST_SCP_IMG_HDR_BASE_S == "HOST_SCP_IMG_HDR_BASE_S"
HOST_AP_BL2_IMG_HDR_BASE_S == "HOST_AP_BL2_IMG_HDR_BASE_S"
RSE_INTEG_ATU_AP_SCP_ATU == "RSE_INTEG_ATU_AP_SCP_ATU"
NoArg == "void"

\* one statement of a function of boot_hal_bl2.c: the call it makes, what
\* the call is made on, and whether its result is tested
Statement(what, arg, fallible) ==
    [call |-> what, arg |-> arg, fallible |-> fallible]
atu_initialize_region(region) ==
    Statement("atu_initialize_region", region, TRUE)
atu_uninitialize_region(region) ==
    Statement("atu_uninitialize_region", region, TRUE)
set_axnsc(region) == Statement("set_axnsc", region, TRUE)
set_axprot1(region) == Statement("set_axprot1", region, TRUE)
memset(header) == Statement("memset", header, FALSE)
atu_ap_set == Statement("atu_ap", RSE_INTEG_ATU_AP_SCP_ATU, FALSE)
mscp_driver_release_cpu == Statement("mscp_driver_release_cpu", NoArg, TRUE)
initialize_rse_scp_mhu == Statement("initialize_rse_scp_mhu", NoArg, TRUE)
host_system_prepare_ap_access ==
    Statement("host_system_prepare_ap_access", NoArg, TRUE)
NVIC_DisableIRQ == Statement("NVIC_DisableIRQ", NoArg, FALSE)

\* what a statement that succeeds changes
Done(b, st) ==
    CASE st.call = "atu_initialize_region" ->
            [b EXCEPT !.atu = @ \cup {st.arg}]
      [] st.call = "atu_uninitialize_region" ->
            [b EXCEPT !.atu = @ \ {st.arg}]
      [] st.call = "memset" -> [b EXCEPT !.hdr_zero = @ \cup {st.arg}]
      [] st.call = "atu_ap" -> [b EXCEPT !.atu_ap = TRUE]
      [] st.call = "mscp_driver_release_cpu" ->
            [b EXCEPT !.scp_released = TRUE]
      [] st.call = "initialize_rse_scp_mhu" -> [b EXCEPT !.mhu_irq = TRUE]
      [] st.call = "NVIC_DisableIRQ" -> [b EXCEPT !.mhu_irq = FALSE]
      [] OTHER -> b

\* what a call that fails has changed: a driver outside these sources has
\* done its work or not (partial); initialize_rse_scp_mhu enables the
\* interrupt as its last statement, after every return 1
Failed(b, st, partial) ==
    IF partial /\ st.call # "initialize_rse_scp_mhu" THEN Done(b, st) ELSE b

BootLogged(b, st, ok) ==
    [b EXCEPT !.log = Append(@, [call |-> st.call, arg |-> st.arg,
                                 ok |-> ok])]

\* the statements of a function from the i-th on: the statement numbered
\* fail fails if its result is tested, and the function returns 1 there
RECURSIVE Statements(_, _, _, _, _)
Statements(b, sts, i, fail, partial) ==
    IF i > Len(sts) THEN [b EXCEPT !.ret = 0]
    ELSE IF i = fail /\ sts[i].fallible
         THEN [BootLogged(Failed(b, sts[i], partial), sts[i], FALSE)
                  EXCEPT !.ret = 1]
         ELSE Statements(BootLogged(Done(b, sts[i]), sts[i], TRUE), sts,
                         i + 1, fail, partial)

boot_platform_finish(b, fail, partial) ==
    Statements(b, <<NVIC_DisableIRQ>>, 1, fail, partial)

boot_platform_pre_load_secure(b, fail, partial) ==
    Statements(b, << >>, 1, fail, partial)

boot_platform_post_load_secure(b, fail, partial) ==
    boot_platform_finish(b, fail, partial)

boot_platform_pre_load_scp(b, fail, partial) ==
    Statements(b, <<atu_initialize_region(RSE_ATU_IMG_HDR_LOAD_ID),
                    atu_initialize_region(RSE_ATU_IMG_CODE_LOAD_ID),
                    initialize_rse_scp_mhu>>, 1, fail, partial)

\* boot_platform_post_load_scp releasing the SCP before the INIT_CTRL
\* region is open
boot_platform_post_load_scp_release_first(b, fail, partial) ==
    Statements(b, <<memset(HOST_SCP_IMG_HDR_BASE_S),
                    atu_ap_set,
                    mscp_driver_release_cpu,
                    atu_initialize_region(HOST_SCP_INIT_CTRL_ATU_ID),
                    atu_uninitialize_region(HOST_SCP_INIT_CTRL_ATU_ID),
                    atu_uninitialize_region(RSE_ATU_IMG_HDR_LOAD_ID),
                    atu_uninitialize_region(RSE_ATU_IMG_CODE_LOAD_ID)>>,
               1, fail, partial)

boot_platform_post_load_scp(b, fail, partial) ==
    Statements(b, <<memset(HOST_SCP_IMG_HDR_BASE_S),
                    atu_ap_set,
                    atu_initialize_region(HOST_SCP_INIT_CTRL_ATU_ID),
                    mscp_driver_release_cpu,
                    atu_uninitialize_region(HOST_SCP_INIT_CTRL_ATU_ID),
                    atu_uninitialize_region(RSE_ATU_IMG_HDR_LOAD_ID),
                    atu_uninitialize_region(RSE_ATU_IMG_CODE_LOAD_ID)>>,
               1, fail, partial)

boot_platform_pre_load_ap_bl2(b, fail, partial) ==
    Statements(b, <<host_system_prepare_ap_access,
                    atu_initialize_region(RSE_ATU_IMG_HDR_LOAD_ID),
                    set_axnsc(RSE_ATU_IMG_HDR_LOAD_ID),
                    set_axprot1(RSE_ATU_IMG_HDR_LOAD_ID),
                    atu_initialize_region(RSE_ATU_IMG_CODE_LOAD_ID),
                    set_axnsc(RSE_ATU_IMG_CODE_LOAD_ID),
                    set_axprot1(RSE_ATU_IMG_CODE_LOAD_ID)>>,
               1, fail, partial)

boot_platform_post_load_ap_bl2(b, fail, partial) ==
    Statements(b, <<memset(HOST_AP_BL2_IMG_HDR_BASE_S),
                    atu_uninitialize_region(RSE_ATU_IMG_HDR_LOAD_ID),
                    atu_uninitialize_region(RSE_ATU_IMG_CODE_LOAD_ID)>>,
               1, fail, partial)

\* boot_platform_pre_load_vector and boot_platform_post_load_vector, behind
\* the test of image_id against RSE_FIRMWARE_COUNT
boot_platform_pre_load(b, image_id, fail, partial) ==
    CASE image_id = RSE_FIRMWARE_SECURE_ID ->
            boot_platform_pre_load_secure(b, fail, partial)
      [] image_id = RSE_FIRMWARE_SCP_ID ->
            boot_platform_pre_load_scp(b, fail, partial)
      [] image_id = RSE_FIRMWARE_AP_BL2_ID ->
            boot_platform_pre_load_ap_bl2(b, fail, partial)
      [] OTHER -> [b EXCEPT !.ret = 0]

boot_platform_post_load(b, image_id, fail, partial) ==
    CASE image_id = RSE_FIRMWARE_SECURE_ID ->
            boot_platform_post_load_secure(b, fail, partial)
      [] image_id = RSE_FIRMWARE_SCP_ID ->
            boot_platform_post_load_scp(b, fail, partial)
      [] image_id = RSE_FIRMWARE_AP_BL2_ID ->
            boot_platform_post_load_ap_bl2(b, fail, partial)
      [] OTHER -> [b EXCEPT !.ret = 0]

\* the statement that fails in a call: none (0), or one of the statements
\* of the longest function
FailPoints == 0..7

InitBoot ==
    /\ RngIdle
    /\ hash_op = NoHash
    /\ key_store = NoKeys
    /\ boot_hal = [NoBoot EXCEPT !.pc = "idle"]

\* a call begins: the call before it is kept in prev
BootCall(fn, image_id) ==
    [boot_hal EXCEPT !.pc = "returned", !.fn = fn, !.image = image_id,
                     !.log = << >>,
                     !.prev = [fn |-> boot_hal.fn, image |-> boot_hal.image,
                               ret |-> boot_hal.ret],
                     !.ncalls = @ + 1]

BootCanCall ==
    /\ boot_hal.pc \in {"idle", "returned"}
    /\ boot_hal.ncalls < MaxBootCalls

BootPreLoad ==
    /\ BootCanCall
    /\ \E image_id \in ImageIds, fail \in FailPoints, partial \in BOOLEAN :
          boot_hal' = boot_platform_pre_load(BootCall("pre_load", image_id),
                                             image_id, fail, partial)
    /\ UNCHANGED <<rng_vars, hash_op, key_store>>

BootPostLoad ==
    /\ BootCanCall
    /\ \E image_id \in ImageIds, fail \in FailPoints, partial \in BOOLEAN :
          boot_hal' = boot_platform_post_load(BootCall("post_load", image_id),
                                              image_id, fail, partial)
    /\ UNCHANGED <<rng_vars, hash_op, key_store>>

NextBoot == BootPreLoad \/ BootPostLoad

SpecBoot == InitBoot /\ [][NextBoot]_vars

(***************************************************************************)
(* Reading the trace of the last call                                      *)
(***************************************************************************)
CS == CC3XX_RNG_CRYPTOGRAPHICALLY_SECURE
FAST == CC3XX_RNG_FAST

\* the positions of the events named ev in log
At(log, ev) == {i \in DOMAIN log : log[i].ev = ev}
Count(log, ev) == Cardinality(At(log, ev))
\* the assignments to the consumed offset of pool q
PoolEvents(log, q) ==
    {i \in DOMAIN log : log[i].q = q /\ log[i].ev \in {"align", "refill", "copy"}}
\* the calls of trng_get_random that gave up, and those that did not
ReadingsFailed(log) ==
    {i \in At(log, "trng_get_random") : log[i].a = CC3XX_CONFIG_RNG_MAX_ATTEMPTS}
ReadingsPassed(log) ==
    {i \in At(log, "trng_get_random") : log[i].a < CC3XX_CONFIG_RNG_MAX_ATTEMPTS}
\* the accesses to the TRNG
HwEvents(log) ==
    {i \in DOMAIN log :
        log[i].ev \in {"trng_init", "trng_get_random", "trng_finish", "ehr_data"}}

LastBytes(s, n) == SubSeq(s, Len(s) - n + 1, Len(s))

\* the pools now and before the last call
BufNow(q) == IF q = CS THEN entropy_buf ELSE lfsr_buf
IdxNow(q) == IF q = CS THEN entropy_buf_used_idx ELSE lfsr_buf_used_idx
BufPre(q) == IF q = CS THEN call.pre.entropy_buf ELSE call.pre.lfsr_buf
IdxPre(q) ==
    IF q = CS THEN call.pre.entropy_buf_used_idx ELSE call.pre.lfsr_buf_used_idx

\* x < y for two little endian words of the same number of bytes, decided
\* from byte i down
RECURSIVE LessFrom(_, _, _)
LessFrom(x, y, i) ==
    IF i = 0 THEN FALSE
    ELSE IF x[i] # y[i] THEN x[i] < y[i]
    ELSE LessFrom(x, y, i - 1)
Less(a, b) == LessFrom(BytesOf(a, WORD), BytesOf(b, WORD), WORD)

\* of the last call, a cc3xx_lowlevel_rng_get_random: the offset its pool
\* has after the alignment step, the bytes A the pool then holds, and
\* whether the request needs a refill
IdxAligned ==
    IF call.buf_aligned /\ call.length % WORD = 0
    THEN WORD * ((IdxPre(call.quality) + WORD - 1) \div WORD)
    ELSE IdxPre(call.quality)
Available == max_buf_size(call.quality) - IdxAligned
NeedsRefill == Available < call.length
CeilDiv(a, b) == (a + b - 1) \div b

(***************************************************************************)
(* C1                                                                      *)
(***************************************************************************)
\* C1: whenever cc3xx_lowlevel_rng_get_random_uint returns success, the
\* value it has stored in *uint is strictly less than bound, for either
\* quality and whatever the generators produce
C1_UintBelowBound ==
    (call.op = "get_random_uint" /\ call.err = CC3XX_ERR_SUCCESS)
        => (call.written /\ Less(call.uint, call.bound))

\* a draw was rejected, a later one accepted
C1_RejectedThenAccepted ==
    /\ call.op = "get_random_uint"
    /\ call.err = CC3XX_ERR_SUCCESS
    /\ call.written
    /\ \E i \in At(call.log, "masked") : call.log[i].a = 1

(***************************************************************************)
(* C2                                                                      *)
(***************************************************************************)
\* C2: as long as every call has returned, the bytes returned by the
\* successful calls on one quality, with the bytes the alignment step threw
\* away put back in their places, are the output of the generator of that
\* quality up to the bytes still unconsumed in its pool: no byte is returned
\* twice, none is skipped, the order is kept
C2_OutputIsGeneratorStream ==
    (~ halted) =>
        \A q \in Qualities :
            stream[q] =
                taken[q] \o (IF stream[q] = << >> THEN << >>
                             ELSE SubSeq(BufNow(q), IdxNow(q) + 1,
                                         max_buf_size(q)))

(***************************************************************************)
(* C3                                                                      *)
(***************************************************************************)
\* C3: for both pools 0 <= consumed offset <= capacity; the offset is set to
\* 0 only right after a refill that succeeded and rewrote the whole buffer,
\* and every other assignment to it leaves it where it is or increases it
C3_UsedIdxBounded ==
    \A q \in Qualities :
        LET log == call.log
            pe == PoolEvents(log, q)
        IN  /\ IdxNow(q) \in 0..max_buf_size(q)
            /\ IdxPre(q) \in 0..max_buf_size(q)
            /\ \A i \in pe :
                  /\ log[i].b \in 0..max_buf_size(q)
                  \* the record is complete: each assignment starts from the
                  \* value the one before has left
                  /\ log[i].a = IF \E j \in pe : j < i
                                THEN log[MaxOf({j \in pe : j < i})].b
                                ELSE IdxPre(q)
                  /\ IF log[i].ev = "refill"
                     THEN /\ log[i].b = 0
                          /\ i > 1
                          /\ log[i - 1].ev = IF q = CS THEN "ehr_data"
                                             ELSE "xorshift"
                     ELSE log[i].a <= log[i].b
            /\ IdxNow(q) = IF pe = {} THEN IdxPre(q) ELSE log[MaxOf(pe)].b
            /\ (stream[q] # << >>)
                  => BufNow(q) = LastBytes(stream[q], max_buf_size(q))

\* an aligned request has thrown bytes away, a pool was refilled
C3_AlignedAndRefilled ==
    /\ \E i \in At(call.log, "align") : call.log[i].a < call.log[i].b
    /\ \E i \in At(call.log, "refill") : call.log[i].a > 0

(***************************************************************************)
(* C4                                                                      *)
(***************************************************************************)
\* C4: when the generator called for a refill returns an error,
\* cc3xx_lowlevel_rng_get_random returns an error; it never returns success
\* with a byte of the caller's buffer not written
C4_RefillErrorPropagates ==
    (call.op = "get_random" /\ ~ halted) =>
        /\ (call.quality = CS /\ ReadingsFailed(call.log) # {})
              => call.err # CC3XX_ERR_SUCCESS
        /\ (call.err = CC3XX_ERR_SUCCESS)
              => \A i \in DOMAIN call.out : call.out[i] # UNWRITTEN

(***************************************************************************)
(* C5                                                                      *)
(***************************************************************************)
\* C5, as the specification states it: a cryptographically secure request that needs a refill
\* calls trng_init once, before its first refill, and trng_finish once, after
\* its last copy; one served from the buffered bytes calls neither
C5_OneInitOneFinish ==
    (call.op = "get_random" /\ call.quality = CS) =>
        LET log == call.log
        IN  IF NeedsRefill
            THEN /\ Count(log, "trng_init") = 1
                 /\ \A i \in At(log, "trng_init"), j \in At(log, "trng_get_random") :
                       i < j
                 /\ Count(log, "trng_finish") = 1
                 /\ \A i \in At(log, "trng_finish"), j \in At(log, "copy") : j < i
            ELSE HwEvents(log) = {}

\* C5: a cryptographically secure request that needs a refill calls
\* trng_init once, before its first refill.  When every refill succeeds it
\* calls trng_finish once, after its last copy.  When a refill gives up,
\* trng_get_random calls trng_finish before FATAL_ERR, and if FATAL_ERR
\* returns the request calls trng_finish once more before it returns.  A
\* request served from the buffered bytes calls none of them
C5_InitOnceFinishPerExit ==
    (call.op = "get_random" /\ call.quality = CS) =>
        LET log == call.log
        IN  IF NeedsRefill
            THEN /\ Count(log, "trng_init") = 1
                 /\ \A i \in At(log, "trng_init"), j \in At(log, "trng_get_random") :
                       i < j
                 /\ Count(log, "trng_finish") =
                       (IF ReadingsFailed(log) # {} THEN 1 ELSE 0)
                           + (IF halted THEN 0 ELSE 1)
                 /\ \A i \in At(log, "trng_finish"), j \in At(log, "copy") : j < i
                 /\ (~ halted) => /\ Len(log) >= 2
                                  /\ log[Len(log)].ev = "return"
                                  /\ log[Len(log) - 1].ev = "trng_finish"
            ELSE HwEvents(log) = {}

\* the second refill of a request has given up and FATAL_ERR has returned
C5_FinishedTwice ==
    /\ call.op = "get_random"
    /\ call.quality = CS
    /\ NeedsRefill
    /\ ~ halted
    /\ Count(call.log, "copy") > 0
    /\ Count(call.log, "trng_finish") = 2

(***************************************************************************)
(* C6                                                                      *)
(***************************************************************************)
\* C6, as the specification states it: a call of cc3xx_lowlevel_rng_get_random with quality Fast
\* never runs trng_init, trng_get_random or trng_finish and leaves the
\* registers of the TRNG alone
C6_FastNeverTouchesTrng ==
    (call.op = "get_random" /\ call.quality = FAST) =>
        /\ HwEvents(call.log) = {}
        /\ rng = call.pre_rng

\* C6: a call with quality Fast runs trng_init, trng_get_random or
\* trng_finish only inside the one cryptographically secure request that
\* seeds the fast generator; once lfsr_seed_done is true no call with quality
\* Fast touches the TRNG
C6_FastTouchesTrngOnlyToSeed ==
    (call.op # "none" /\ call.quality = FAST) =>
        LET log == call.log
        IN  /\ \A i \in HwEvents(log) :
                  /\ ~ call.pre.lfsr_seed_done
                  /\ \E s \in At(log, "seed") :
                        /\ s < i
                        /\ \A r \in At(log, "return") : (s < r /\ r < i) => log[r].q # CS
            /\ call.pre.lfsr_seed_done => HwEvents(log) = {}
            /\ (HwEvents(log) = {}) => rng = call.pre_rng

\* the fast pool is refilled after the generator was seeded
C6_SeededRefill ==
    /\ call.op = "get_random"
    /\ call.quality = FAST
    /\ call.pre.lfsr_seed_done
    /\ Count(call.log, "xorshift") > 0
    /\ HwEvents(call.log) = {}

(***************************************************************************)
(* C7                                                                      *)
(***************************************************************************)
\* C7: the fast generator is seeded at most once: lfsr_seed_done never goes
\* back to false, a call that starts with lfsr_seed_done true never draws a
\* seed, no call draws two, and a seed drawn sets lfsr_seed_done
C7_SeededAtMostOnce ==
    [][/\ lfsr_seed_done => lfsr_seed_done'
       /\ lfsr_seed_done => Count(call'.log, "seed") = 0
       /\ Count(call'.log, "seed") <= 1
       /\ (Count(call'.log, "seed") = 1 /\ ~ halted') => lfsr_seed_done']_vars

\* a call seeds the generator, the next refills the fast pool again
C7_RefillAfterSeed ==
    /\ lfsr_seed_done
    /\ call.pre.lfsr_seed_done
    /\ call.quality = FAST
    /\ Count(call.log, "xorshift") > 0
    /\ Count(call.log, "seed") = 0

(***************************************************************************)
(* C8                                                                      *)
(***************************************************************************)
\* the number of health test failures the hardware reports to the n-th
\* trng_get_random of the last call
FailuresReported(n) == IF n = call.env.fail_at THEN call.env.k ELSE 0
\* the content of ehr_data at the latest collection of entropy
LatestEhrData ==
    EhrData(call.env.d,
            Len(stream[CS]) \div SizeofEntropyBuf - 1)

\* C8: when the hardware reports k < CC3XX_CONFIG_RNG_MAX_ATTEMPTS health
\* test failures and then valid data, trng_get_random counts k attempts,
\* reads ehr_data and returns success (its caller resets the consumed
\* offset), and entropy_buf holds every word of ehr_data in index order
C8_ReadsEhrAfterFewFailures ==
    LET log == call.log
        rd == At(log, "trng_get_random")
    IN  /\ \A i \in rd :
              LET n == Cardinality({j \in rd : j <= i})
              IN  FailuresReported(n) < CC3XX_CONFIG_RNG_MAX_ATTEMPTS =>
                    /\ log[i].a = FailuresReported(n)
                    /\ Len(log) >= i + 2
                    /\ log[i + 1].ev = "ehr_data"
                    /\ log[i + 1].b = EHR_WORDS
                    /\ log[i + 2].ev = "refill"
                    /\ log[i + 2].q = CS
        /\ (rd # {} /\ MaxOf(rd) \in ReadingsPassed(log))
              => entropy_buf = LatestEhrData

\* the most failures trng_get_random bears, then valid data
C8_MostFailuresBorne ==
    /\ call.env.fail_at = 1
    /\ call.env.k = CC3XX_CONFIG_RNG_MAX_ATTEMPTS - 1
    /\ Count(call.log, "trng_get_random") = 1
    /\ Count(call.log, "ehr_data") = 1
    /\ entropy_buf = LatestEhrData

(***************************************************************************)
(* C9                                                                      *)
(***************************************************************************)
\* C9: when the hardware reports CC3XX_CONFIG_RNG_MAX_ATTEMPTS health test
\* failures to one trng_get_random, that call reports the fatal error
\* CC3XX_ERR_RNG_TOO_MANY_ATTEMPTS once, does not read ehr_data and writes no
\* word of entropy_buf
C9_GivesUpAfterMaxAttempts ==
    LET log == call.log
        rd == At(log, "trng_get_random")
    IN  /\ \A i \in rd :
              LET n == Cardinality({j \in rd : j <= i})
              IN  FailuresReported(n) = CC3XX_CONFIG_RNG_MAX_ATTEMPTS =>
                    /\ log[i].a = CC3XX_CONFIG_RNG_MAX_ATTEMPTS
                    /\ Len(log) >= i + 2
                    /\ log[i + 1].ev = "trng_finish"
                    /\ log[i + 2].ev = "FATAL_ERR"
                    /\ log[i + 2].q = CC3XX_ERR_RNG_TOO_MANY_ATTEMPTS
                    /\ (Len(log) >= i + 3) =>
                          log[i + 3].ev \notin {"FATAL_ERR", "ehr_data"}
        /\ (call.op = "get_random")
              => Count(log, "FATAL_ERR") = Cardinality(ReadingsFailed(log))
        /\ (rd # {} /\ MaxOf(rd) \in ReadingsFailed(log)) =>
              entropy_buf = IF Count(log, "ehr_data") = 0
                            THEN call.pre.entropy_buf
                            ELSE LatestEhrData

\* the second trng_get_random of a request gives up
C9_GaveUpAfterARefill ==
    /\ call.op = "get_random"
    /\ call.env.k = CC3XX_CONFIG_RNG_MAX_ATTEMPTS
    /\ call.env.fail_at = 2
    /\ Count(call.log, "ehr_data") = 1
    /\ Count(call.log, "FATAL_ERR") = 1

(***************************************************************************)
(* C10                                                                     *)
(***************************************************************************)
\* C10: a request of L bytes that returns success, on a pool holding A
\* unconsumed bytes after the alignment step, has refilled the pool 0 times
\* when L <= A and ceil((L - A) / capacity) times when L > A, and its output
\* is the A old bytes (L of them when L <= A) followed in order by the first
\* L - A bytes the generator has produced during the request
C10_RefillsAndOutput ==
    (call.op = "get_random" /\ call.err = CC3XX_ERR_SUCCESS) =>
        LET q == call.quality
            L == call.length
            A == Available
            refills == Cardinality({i \in At(call.log, "refill") : call.log[i].q = q})
            fresh == LastBytes(stream[q], refills * max_buf_size(q))
        IN  /\ refills = IF L <= A THEN 0 ELSE CeilDiv(L - A, max_buf_size(q))
            /\ call.out =
                  SubSeq(BufPre(q), IdxAligned + 1, IdxAligned + Min(A, L))
                      \o SubSeq(fresh, 1, L - Min(A, L))

(***************************************************************************)
(* Reading a permutation                                                   *)
(***************************************************************************)
\* the identity of length len
Identity(len) == [i \in 1..len |-> i - 1]
\* buf holds every value of [0, len) exactly once
IsPermutation(buf, len) ==
    /\ Len(buf) = len
    /\ {buf[i] : i \in 1..len} = 0..(len - 1)
PermutationsOf(len) ==
    {p \in [1..len -> 0..(len - 1)] : IsPermutation(p, len)}
\* all results of len calls of the sampler that succeed: the tuples
\* (o_0, ..., o_{len-1}) with o_i in [0, len - i)
Succeeded(o) == [err |-> CC3XX_ERR_SUCCESS, swap_idx |-> o]
SampleTuples(len) ==
    {[i \in 1..len |-> Succeeded(t[i])] :
        t \in {t \in [1..len -> 0..(len - 1)] :
                  \A i \in 1..len : t[i] < len - (i - 1)}}
fisher_yates_shuffle(len, samples) ==
    fisher_yates_from(Identity(len), len, 0, samples)
Factorial(n) == Cardinality(PermutationsOf(n))

(***************************************************************************)
(* C11                                                                     *)
(***************************************************************************)
\* C11, as the specification states it: with the DPA countermeasure disabled
\* cc3xx_lowlevel_rng_get_random_permutation returns the identity for every
\* length: permutation_buf[i] == i for all i in [0, len), for either quality
C11_IdentityForEveryLen ==
    (permutation.pc = "return" /\ ~ permutation.dpa)
        => \A i \in 0..(permutation.len - 1) :
               permutation.permutation_buf[i + 1] = i

\* C11: with the DPA countermeasure disabled
\* cc3xx_lowlevel_rng_get_random_permutation returns the identity for every
\* length up to 256, for either quality; of a longer buffer the elements
\* from 256 on hold i modulo 256
C11_IdentityUpTo256 ==
    (permutation.pc = "return" /\ ~ permutation.dpa)
        => /\ \A i \in 0..(permutation.len - 1) :
                  permutation.permutation_buf[i + 1] = i % UINT8_VALUES
           /\ permutation.len <= UINT8_VALUES
                  => permutation.permutation_buf = Identity(permutation.len)

\* the longest identity a buffer of uint8_t holds was returned
C11_Returned256 ==
    /\ permutation.pc = "return"
    /\ ~ permutation.dpa
    /\ permutation.len = UINT8_VALUES
    /\ permutation.permutation_buf[UINT8_VALUES] = UINT8_VALUES - 1

(***************************************************************************)
(* C12                                                                     *)
(***************************************************************************)
\* C12: with the countermeasure enabled and every sampler call succeeding,
\* for each length n up to MaxPermLen the map from the sampler results
\* (o_0, ..., o_{n-1}), o_i in [0, n - i), to the permutation returned is a
\* bijection onto the n! permutations of [0, n): the buffer returned is the
\* image of the results drawn, no other tuple has that image, and the images
\* are all the permutations
C12_ShuffleIsBijection ==
    (/\ permutation.pc = "return"
     /\ permutation.dpa
     /\ permutation.len <= MaxPermLen
     /\ permutation.samples \in SampleTuples(permutation.len))
        => /\ permutation.permutation_buf
                  = fisher_yates_shuffle(permutation.len, permutation.samples)
           /\ \A o \in SampleTuples(permutation.len) :
                  o # permutation.samples
                      => fisher_yates_shuffle(permutation.len, o)
                             # permutation.permutation_buf
           /\ {fisher_yates_shuffle(permutation.len, o) :
                  o \in SampleTuples(permutation.len)}
                  = PermutationsOf(permutation.len)
           /\ Cardinality(SampleTuples(permutation.len))
                  = Factorial(permutation.len)

\* a shuffle of MaxPermLen elements has returned, every sampler call having
\* succeeded, the first with the largest offset
C12_ShuffledMaxPermLen ==
    /\ permutation.pc = "return"
    /\ permutation.dpa
    /\ permutation.len = MaxPermLen
    /\ permutation.samples \in SampleTuples(MaxPermLen)
    /\ permutation.samples[1].swap_idx = MaxPermLen - 1
    /\ permutation.permutation_buf[1] = MaxPermLen - 1

(***************************************************************************)
(* C16                                                                     *)
(***************************************************************************)
\* C16: with the countermeasure enabled and len <= 256 the buffer holds every
\* value of [0, len) exactly once when
\* cc3xx_lowlevel_rng_get_random_permutation returns and after every
\* iteration of the loop of fisher_yates_shuffle, whatever the sampler
\* returns and whichever of its calls fail
C16_AlwaysAPermutation ==
    (/\ permutation.dpa
     /\ permutation.len <= UINT8_VALUES
     /\ permutation.pc \in {"shuffle", "return"})
        => IsPermutation(permutation.permutation_buf, permutation.len)

\* a shuffle has returned in which a sampler call failed and a later one
\* moved an element
C16_ShuffledDespiteFailure ==
    /\ permutation.pc = "return"
    /\ permutation.dpa
    /\ permutation.len = MaxPermLen
    /\ permutation.samples[1].err # CC3XX_ERR_SUCCESS
    /\ permutation.permutation_buf # Identity(MaxPermLen)

(***************************************************************************)
(* C13                                                                     *)
(***************************************************************************)
\* C13: for every bound that is an exact power of two the mask of
\* cc3xx_lowlevel_rng_get_random_uint is bound - 1 and the first value drawn
\* is accepted: the call makes exactly one draw of 32 bits, rejects nothing
\* and, unless that draw ends in a FATAL_ERR that halts, returns success
C13_PowerOfTwoOneDraw ==
    (call.op = "get_random_uint" /\ Cardinality(call.bound) = 1)
        => /\ UintMask(call.bound) = Dec(call.bound, 32)
           /\ Count(call.log, "draw") = 1
           /\ \A i \in At(call.log, "masked") : call.log[i].a = 0
           /\ call.err # "halted"
                  => /\ call.err = CC3XX_ERR_SUCCESS
                     /\ call.written
                     /\ Count(call.log, "masked") = 1
                     /\ Less(call.uint, call.bound)

\* a value below 2^31 was returned after one draw
C13_OneDrawBelow2Pow31 ==
    /\ call.op = "get_random_uint"
    /\ call.bound = {31}
    /\ call.err = CC3XX_ERR_SUCCESS
    /\ call.written
    /\ call.uint # {}
    /\ Count(call.log, "draw") = 1

(***************************************************************************)
(* C14                                                                     *)
(***************************************************************************)
\* the word 2^k - 1, and the word of a number below 256
Ones(k) == 0..(k - 1)
WordOf(n) == BitsOf(<<n, 0, 0, 0>>)

\* C14: for every non-zero 32 bit bound the mask computed by
\* cc3xx_lowlevel_rng_get_random_uint is the smallest value of the form
\* 2^k - 1 that is >= bound - 1; for bound = 10 it is 0x0F, so that of the
\* masked values 10..15 are rejected and 0..9 accepted
C14_MaskIsSmallestOnes ==
    uint_mask.pc = "mask"
        => /\ \E k \in 0..32 :
                 /\ uint_mask.mask = Ones(k)
                 /\ Geq(Ones(k), Dec(uint_mask.bound, 32))
                 /\ \A j \in 0..32 :
                        Geq(Ones(j), Dec(uint_mask.bound, 32)) => j >= k
           /\ uint_mask.bound = WordOf(10)
                 => /\ uint_mask.mask = WordOf(15)
                    /\ \A v \in 0..15 :
                           /\ And(WordOf(v), uint_mask.mask) = WordOf(v)
                           /\ Rejected(WordOf(v), uint_mask.bound) <=> v >= 10

\* the mask of 10 was computed
C14_MaskOfTen ==
    /\ uint_mask.pc = "mask"
    /\ uint_mask.bound = WordOf(10)
    /\ uint_mask.mask = WordOf(15)

(***************************************************************************)
(* C15                                                                     *)
(***************************************************************************)
\* C15: cc3xx_lowlevel_rng_get_random_uint called with bound == 0 fails
\* before any byte is drawn and before any register of the hardware is
\* accessed: it does not return success, and both pools' buffers and
\* offsets, the state of the fast generator and the registers are as they
\* were
C15_ZeroBoundRejectedUntouched ==
    (call.op = "get_random_uint" /\ call.bound = {})
        => /\ call.err # CC3XX_ERR_SUCCESS
           /\ Count(call.log, "draw") = 0
           /\ HwEvents(call.log) = {}
           /\ Statics = call.pre
           /\ rng = call.pre_rng

(***************************************************************************)
(* C17                                                                     *)
(***************************************************************************)
\* the draws of the last call that were masked, and whether the sampler
\* itself has taken the attempts-exhausted path (its FATAL_ERR follows the
\* masking of a draw, that of trng_get_random follows trng_finish)
Masked == At(call.log, "masked")
SamplerGaveUp ==
    \E i \in Masked :
        i < Len(call.log) /\ call.log[i + 1].ev = "FATAL_ERR"

\* C17: cc3xx_lowlevel_rng_get_random_uint accepts any draw whose masked
\* value is below bound and takes the attempts-exhausted path only after
\* CC3XX_CONFIG_RNG_MAX_ATTEMPTS draws that were all rejected; it never
\* reports attempts-exhausted on a draw whose masked value is below bound and
\* never makes more than CC3XX_CONFIG_RNG_MAX_ATTEMPTS draws
C17_ExhaustedOnlyAfterRejections ==
    call.op = "get_random_uint"
        => /\ Count(call.log, "draw") <= CC3XX_CONFIG_RNG_MAX_ATTEMPTS
           /\ SamplerGaveUp
                  => /\ Cardinality(Masked) = CC3XX_CONFIG_RNG_MAX_ATTEMPTS
                     /\ \A i \in Masked : call.log[i].a = 1
           /\ (\E i \in Masked : call.log[i].a = 0)
                  => call.err = CC3XX_ERR_SUCCESS

(***************************************************************************)
(* C18                                                                     *)
(***************************************************************************)
\* C18: the polling loop of trng_get_random is bounded: whatever rng_isr
\* shows, each call eventually leaves the loop and either returns entropy or
\* takes the attempts-exhausted path; it never polls forever
C18_PollingEnds ==
    <>(trng_poll.pc \in {"exited", "return_data", "return_error", "fatal"})

(***************************************************************************)
(* C19                                                                     *)
(***************************************************************************)
\* C19: trng_get_random returns entropy only of a generation cycle that
\* raised no health test failure: when the loop is left on EHR_VALID rng_isr
\* shows no failed test (it is exactly 0x1), whatever the TRNG does between
\* the two reads of rng_isr of an iteration
C19_ExitOnValidWithoutFailure ==
    (/\ trng_poll.pc \in {"exited", "return_data"}
     /\ ~ TooManyAttempts(trng_poll.attempt_count))
        => trng_poll.exit_isr = 1

(***************************************************************************)
(* C20                                                                     *)
(***************************************************************************)
\* the alignment steps of the last call, and the bytes its copies have
\* consumed of pool q
Aligns == At(call.log, "align")
Consumed(q) ==
    LET copies == {i \in At(call.log, "copy") : call.log[i].q = q}
        RECURSIVE Sum(_)
        Sum(S) == IF S = {} THEN 0
                  ELSE LET i == CHOOSE j \in S : TRUE
                       IN  call.log[i].b - call.log[i].a + Sum(S \ {i})
    IN  Sum(copies)

\* C20: the alignment step of cc3xx_lowlevel_rng_get_random discards bytes
\* only when the address and the length of the request are both multiples of
\* 4; it then advances the consumed offset to the next multiple of 4, which
\* discards at most 3 bytes and never passes the capacity; a request whose
\* address or length is no multiple of 4 discards nothing: every byte its
\* copies consume of its pool is written to the caller's buffer, and the
\* only alignment steps during it are those of the aligned request that
\* seeds the fast generator
C20_AlignOnlyWordAlignedRequests ==
    /\ \A i \in Aligns :
          /\ call.log[i].b = WORD * CeilDiv(call.log[i].a, WORD)
          /\ call.log[i].b - call.log[i].a \in 0..(WORD - 1)
          /\ call.log[i].b <= max_buf_size(call.log[i].q)
    /\ (call.op = "get_random" /\ call.buf_aligned /\ call.length % WORD = 0)
          => \E i \in Aligns :
                 /\ call.log[i].q = call.quality
                 /\ call.log[i].a = IdxPre(call.quality)
                 /\ \A j \in PoolEvents(call.log, call.quality) : i <= j
    /\ (call.op = "get_random"
        /\ ~ (call.buf_aligned /\ call.length % WORD = 0))
          => /\ \A i \in Aligns :
                    /\ call.log[i].q # call.quality
                    /\ \E j \in At(call.log, "seed") : j < i
             /\ Consumed(call.quality)
                    = Cardinality({i \in DOMAIN call.out :
                                      call.out[i] # UNWRITTEN})

\* an aligned request has discarded 3 bytes, and so many bytes were left in
\* the pool that it needed no refill
C20_DiscardedThree ==
    /\ call.op = "get_random"
    /\ call.buf_aligned
    /\ call.length = WORD
    /\ \E i \in Aligns : call.log[i].b - call.log[i].a = WORD - 1
    /\ At(call.log, "refill") = {}

(***************************************************************************)
(* C21                                                                     *)
(***************************************************************************)
\* the last call is a word-aligned cc3xx_lowlevel_rng_get_random, and the
\* copies made during it
WordAlignedRequest ==
    call.op = "get_random" /\ call.buf_aligned /\ call.length % WORD = 0
Copies == At(call.log, "copy")
\* the bytes of the caller's buffer that were written
WrittenBytes == {i \in DOMAIN call.out : call.out[i] # UNWRITTEN}
\* the loop of the last call was not left by a failed refill or a halt
LoopCompleted ==
    /\ call.err # "halted"
    /\ call.quality = CS => ReadingsFailed(call.log) = {}

\* C21: during a word-aligned cc3xx_lowlevel_rng_get_random request the
\* consumed offset before and after every copy, and so every copy_size, is
\* a multiple of 4; the word-wise copies write exactly the bytes consumed,
\* from the start of the buffer on, and when the loop runs to its end no
\* requested byte is left unwritten
C21_AlignedCopiesAreWhole ==
    WordAlignedRequest
        => /\ \A i \in Copies :
                 /\ call.log[i].a % WORD = 0
                 /\ call.log[i].b % WORD = 0
                 /\ call.log[i].b > call.log[i].a
           /\ WrittenBytes = 1..Consumed(call.quality)
           /\ LoopCompleted => WrittenBytes = 1..call.length

\* a word-aligned request found an offset that was no multiple of 4 and was
\* served by two copies, before and after a refill
C21_AlignedAcrossRefill ==
    /\ WordAlignedRequest
    /\ IdxPre(call.quality) % WORD # 0
    /\ Cardinality({i \in Copies : call.log[i].q = call.quality}) = 2
    /\ WrittenBytes = 1..call.length
    /\ call.length = WORD * MaxWords

(***************************************************************************)
(* C22                                                                     *)
(***************************************************************************)
\* the reads of the TRNG during the last call: the calls of trng_get_random
\* and the copies of the entropy data register
TrngReads == At(call.log, "trng_get_random") \cup At(call.log, "ehr_data")
\* at event i of the last call the noise source and its clock are enabled:
\* a trng_init came before with no trng_finish since
EnabledAt(i) ==
    \E j \in At(call.log, "trng_init") :
        /\ j < i
        /\ \A k \in At(call.log, "trng_finish") : ~ (j < k /\ k < i)
\* the request that made event i calls trng_finish before it returns
FinishedAfter(i) ==
    \E k \in At(call.log, "trng_finish") :
        /\ i < k
        /\ \A r \in At(call.log, "return") : ~ (i < r /\ r < k)

\* C22: every call of trng_get_random and every read of the entropy data
\* register happens after a trng_init and before the trng_finish of the
\* same cc3xx_lowlevel_rng_get_random call, and once a call has returned
\* the noise source and its clock are disabled
C22_TrngReadOnlyWhileEnabled ==
    /\ \A i \in TrngReads :
          /\ EnabledAt(i)
          /\ ~ halted => FinishedAfter(i)
    /\ ~ halted => rng.rnd_source_enable = 0 /\ rng.rng_clk_enable = 0

\* a request has read the entropy data register twice and returned
C22_TwoReadingsBracketed ==
    /\ call.op = "get_random"
    /\ call.quality = CS
    /\ Count(call.log, "ehr_data") = 2
    /\ Count(call.log, "trng_init") = 1
    /\ ~ halted
    /\ call.pre_rng = RngReset
    /\ rng.rng_sw_reset = 1

(***************************************************************************)
(* C23                                                                     *)
(***************************************************************************)
\* the last call has left pool q as it found it
PoolUnchanged(q) == BufNow(q) = BufPre(q) /\ IdxNow(q) = IdxPre(q)

\* C23: a CryptographicallySecure cc3xx_lowlevel_rng_get_random call leaves
\* the buffer and the offset of the fast pool, the state of the fast
\* generator and lfsr_seed_done unchanged; a Fast call that finds the
\* generator seeded leaves the buffer and the offset of the cryptographic
\* pool unchanged, and a Fast call that changes them is the one that seeds
\* the generator: lfsr_seed_done was false before it and is true after it
C23_PoolsIndependent ==
    call.op = "get_random"
        => /\ call.quality = CS
                => /\ PoolUnchanged(FAST)
                   /\ state = call.pre.state
                   /\ lfsr_seed_done = call.pre.lfsr_seed_done
           /\ (call.quality = FAST /\ call.pre.lfsr_seed_done)
                => PoolUnchanged(CS)
           /\ (call.quality = FAST /\ ~ PoolUnchanged(CS))
                => /\ ~ call.pre.lfsr_seed_done
                   /\ Count(call.log, "seed") = 1
                   /\ ~ halted => lfsr_seed_done

\* a Fast request has refilled the fast pool of a seeded generator while
\* the cryptographic pool held bytes
C23_FastRefillAfterSeeding ==
    /\ call.op = "get_random"
    /\ call.quality = FAST
    /\ call.pre.lfsr_seed_done
    /\ Count(call.log, "xorshift") >= 2
    /\ IdxPre(CS) < max_buf_size(CS)
    /\ lfsr_buf # call.pre.lfsr_buf

(***************************************************************************)
(* C24                                                                     *)
(***************************************************************************)
\* the requests for a seed made during the last call, and the bytes of the
\* cryptographic pool they have thrown away to align the offset
Seedings == At(call.log, "seed")
RECURSIVE Advance(_)
Advance(S) ==
    IF S = {} THEN 0
    ELSE LET i == CHOOSE j \in S : TRUE
         IN  call.log[i].b - call.log[i].a + Advance(S \ {i})
SeedDiscarded ==
    Advance({i \in Aligns : call.log[i].q = CS /\ \E s \in Seedings : s < i})
SeedCopied ==
    Advance({i \in Copies : call.log[i].q = CS /\ \E s \in Seedings : s < i})
\* lazily and before any output: lfsr_seed_done is set by a Fast request
\* that refills the fast pool and by no other, and every copy out of the
\* fast pool comes after the request for the seed
SeededLazily ==
    /\ call.quality = CS => Seedings = {}
    /\ Seedings # {}
          => /\ ~ call.pre.lfsr_seed_done
             /\ ~ halted
                    => \E i \in PoolEvents(call.log, FAST) :
                           /\ call.log[i].ev = "refill"
                           /\ \A s \in Seedings : s < i
    /\ (Seedings = {} /\ ~ call.pre.lfsr_seed_done)
          => /\ ~ lfsr_seed_done
             /\ \A i \in Copies : call.log[i].q # FAST
    /\ (Seedings # {} /\ ~ halted) => lfsr_seed_done
    /\ \A i \in Copies :
          (call.log[i].q = FAST /\ ~ call.pre.lfsr_seed_done)
              => \E s \in Seedings : s < i
    /\ ~ lfsr_seed_done => taken[FAST] = << >>

\* C24 as stated: the fast generator is seeded lazily and before any
\* output, and the seeding consumes exactly 16 bytes of the cryptographic
\* stream
C24_SeedingConsumes16 ==
    /\ SeededLazily
    /\ Seedings # {} => SeedDiscarded + SeedCopied = 16

\* C24: the fast generator is seeded lazily and before any output:
\* lfsr_seed_done is false until the first Fast request that refills the
\* fast pool, no byte of the fast pool is copied to a caller before the
\* request for the seed, and that request, when none of its refills fails,
\* copies exactly 16 bytes of the cryptographic pool to the state after
\* throwing away the at most 3 bytes that align the offset
C24_SeededLazilyBeforeOutput ==
    /\ SeededLazily
    /\ Seedings # {}
          => /\ Cardinality(Seedings) = 1
             /\ SeedDiscarded \in 0..(WORD - 1)
             /\ SeedCopied <= 16
             /\ (ReadingsFailed(call.log) = {} /\ ~ halted)
                    => SeedCopied = 16

\* the fast generator was seeded from a cryptographic pool whose offset was
\* no multiple of 4: the seeding has consumed 19 bytes
C24_SeededFromUnalignedPool ==
    /\ call.quality = FAST
    /\ Seedings # {}
    /\ lfsr_seed_done
    /\ SeedCopied = 16
    /\ SeedDiscarded = WORD - 1
    /\ taken[FAST] # << >>

(***************************************************************************)
(* C25                                                                     *)
(***************************************************************************)
\* the last call has asked for the seed, the refill of that request has
\* failed and FATAL_ERR has returned
SeedFailed == Seedings # {} /\ ReadingsFailed(call.log) # {} /\ ~ halted
\* every byte the last call has written to the caller's buffer is 0
OutputIsZero == \A i \in WrittenBytes : call.out[i] = 0
\* the failure is neither propagated nor retried
SeedErrorIgnored ==
    SeedFailed
        => /\ lfsr_seed_done
           /\ Cardinality(Seedings) = 1
           /\ Count(call.log, "trng_get_random") = 1
           /\ call.op = "get_random"
                  => /\ call.err = CC3XX_ERR_SUCCESS
                     /\ WrittenBytes = 1..call.length
\* a seeded generator whose state is all zero stays there and outputs 0
ZeroStateStays ==
    (call.pre.lfsr_seed_done /\ call.pre.state = Zeros(16))
        => /\ state = Zeros(16)
           /\ lfsr_buf = Zeros(SizeofLfsrBuf)
           /\ (call.op = "get_random" /\ call.quality = FAST) => OutputIsZero

S0(st) == BitsOf(SubSeq(st, 1, 8))
S1(st) == BitsOf(SubSeq(st, 9, 16))
\* bit i of w >> n and of w << n for a 64 bit word w
BitShr(w, n, i) == i + n <= 63 /\ (i + n) \in w
BitShl(w, n, i) == i - n >= 0 /\ (i - n) \in w
\* u = s0 ^ (s0 << 23) and t = u ^ (u >> 18) ^ s1 ^ (s1 >> 5), bit by bit
U(s0) == {i \in 0..63 : (i \in s0) # BitShl(s0, 23, i)}
T(s0, s1) ==
    {i \in 0..63 :
        ((i \in U(s0)) # BitShr(U(s0), 18, i))
            # ((i \in s1) # BitShr(s1, 5, i))}
\* (x + y) mod 2^64 for two little endian words of 8 bytes, added byte by
\* byte from byte i on with carry c
RECURSIVE SumBytes(_, _, _, _)
SumBytes(x, y, i, c) ==
    IF i > 8 THEN << >>
    ELSE <<(x[i] + y[i] + c) % 256>>
             \o SumBytes(x, y, i + 1, (x[i] + y[i] + c) \div 256)

\* C26: a draw of xorshift_plus_128_lfsr from state (s0, s1) leaves
\* s0' = s1 and s1' = t, where t = u ^ (u >> 18) ^ s1 ^ (s1 >> 5) and
\* u = s0 ^ (s0 << 23) on 64 bit words, and returns (t + s1) mod 2^64
C26_DrawIsXorshiftPlus ==
    lfsr_draw.pc = "drawn"
        => /\ S0(lfsr_draw.state) = S1(lfsr_draw.prev)
           /\ S1(lfsr_draw.state)
                  = T(S0(lfsr_draw.prev), S1(lfsr_draw.prev))
           /\ BytesOf(lfsr_draw.value, 8)
                  = SumBytes(SubSeq(lfsr_draw.state, 9, 16),
                             SubSeq(lfsr_draw.prev, 9, 16), 1, 0)

\* a draw has shifted a bit out of the word at both ends and its addition
\* has carried out of bit 63
C26_DrawTruncatesAndCarries ==
    /\ lfsr_draw.pc = "drawn"
    /\ S0(lfsr_draw.prev) = 0..63
    /\ 63 \in S1(lfsr_draw.prev)
    /\ 63 \in S1(lfsr_draw.state)
    /\ lfsr_draw.value # {}

(***************************************************************************)
(* C27                                                                     *)
(***************************************************************************)
\* the sampler calls of the shuffle that have failed so far
FailedSamples ==
    {i \in DOMAIN permutation.samples :
        permutation.samples[i].err # CC3XX_ERR_SUCCESS}
\* the step taken is an iteration of the shuffle whose sampler call fails
FailedIteration ==
    /\ permutation.pc = "shuffle"
    /\ permutation'.pc = "shuffle"
    /\ Len(permutation'.samples) = Len(permutation.samples) + 1
    /\ permutation'.samples[Len(permutation'.samples)].err
           # CC3XX_ERR_SUCCESS

\* C27: an iteration of fisher_yates_shuffle whose sampler call fails
\* leaves the buffer as it was and goes on with the next index, and the
\* function returns only after the sampler was called for every index
C27_FailedSampleSkipsSwap ==
    /\ [][FailedIteration
            => /\ permutation'.permutation_buf = permutation.permutation_buf
               /\ permutation'.idx = permutation.idx + 1
               /\ Len(permutation.samples) = permutation.idx]_vars
    /\ [](permutation.pc = "shuffle"
            => Len(permutation.samples) = permutation.idx)
    /\ []((permutation.pc = "return" /\ permutation.dpa)
            => Len(permutation.samples) = permutation.len)

\* the shuffle has returned after a failed sampler call that was followed
\* by a swap of two different elements
C27_SwappedAfterFailure ==
    /\ permutation.pc = "return"
    /\ permutation.len = MaxPermLen
    /\ FailedSamples = {2}
    /\ permutation.samples[3].swap_idx = 1
    /\ permutation.permutation_buf[3] = 3
    /\ permutation.permutation_buf[4] = 2

(***************************************************************************)
(* C28                                                                     *)
(***************************************************************************)
\* the index the iteration of sample i swaps with
SwapIndexUsed(i) == SwapIdx(i - 1, permutation.samples[i].swap_idx)

\* C28: fisher_yates_shuffle over a buffer of len > 0 elements calls the
\* sampler with the bounds len, len - 1, ... in that order, never with
\* bound 0, and exactly len times by the time it returns, the last bound
\* being 1; every swap index it uses lies between its index and len - 1;
\* for len = 0, and in a build without the shuffle, the sampler is not
\* called
C28_LenCallsBoundsDownToOne ==
    /\ Len(permutation.bounds) = Len(permutation.samples)
    /\ \A i \in DOMAIN permutation.bounds :
          /\ permutation.bounds[i] = permutation.len - (i - 1)
          /\ permutation.bounds[i] >= 1
          /\ permutation.samples[i].err = CC3XX_ERR_SUCCESS
                => /\ i - 1 <= SwapIndexUsed(i)
                   /\ SwapIndexUsed(i) <= permutation.len - 1
    /\ (permutation.pc = "return" /\ permutation.dpa)
          => Len(permutation.bounds) = permutation.len
    /\ (permutation.len = 0 \/ ~ permutation.dpa)
          => permutation.bounds = << >>

\* a shuffle of MaxPermLen elements has returned: its last sampler call had
\* bound 1 and its first one has swapped the first with the last element
C28_ShuffledToTheLast ==
    /\ permutation.pc = "return"
    /\ permutation.len = MaxPermLen
    /\ Len(permutation.bounds) = MaxPermLen
    /\ permutation.bounds[MaxPermLen] = 1
    /\ FailedSamples = {}
    /\ SwapIndexUsed(1) = MaxPermLen - 1

(***************************************************************************)
(* C29                                                                     *)
(***************************************************************************)
\* the last call is a cc3xx_lowlevel_rng_get_random of no byte
EmptyRequest == call.op = "get_random" /\ call.length = 0
\* the pool the last call did not ask for
OtherQuality == IF call.quality = CS THEN FAST ELSE CS
\* what an empty request leaves alone whatever its address: it returns
\* success, refills nothing, leaves the hardware and the destination alone,
\* and changes no buffer, no generator state and not the other pool
EmptyRequestFrame ==
    /\ call.err = CC3XX_ERR_SUCCESS
    /\ At(call.log, "refill") = {}
    /\ At(call.log, "xorshift") = {}
    /\ HwEvents(call.log) = {}
    /\ rng = call.pre_rng
    /\ call.out = << >>
    /\ BufNow(CS) = BufPre(CS)
    /\ BufNow(FAST) = BufPre(FAST)
    /\ state = call.pre.state
    /\ lfsr_seed_done = call.pre.lfsr_seed_done
    /\ IdxNow(OtherQuality) = IdxPre(OtherQuality)

\* C29 as stated: a request of length 0 returns success without refilling,
\* touching the hardware or writing, and leaves both consumed offsets
\* unchanged
C29_EmptyRequestChangesNothing ==
    EmptyRequest
        => /\ EmptyRequestFrame
           /\ IdxNow(call.quality) = IdxPre(call.quality)

\* C29: a request of length 0 returns success without refilling, touching
\* the hardware or writing; it leaves the other pool's consumed offset
\* unchanged, and its own unchanged when the address is not word aligned;
\* when the address is word aligned the offset of its pool is rounded up to
\* the next multiple of 4
C29_EmptyRequestOnlyAligns ==
    EmptyRequest
        => /\ EmptyRequestFrame
           /\ IdxNow(call.quality)
                  = IF call.buf_aligned
                    THEN WORD * CeilDiv(IdxPre(call.quality), WORD)
                    ELSE IdxPre(call.quality)

\* a request of length 0 at a word aligned address has moved the consumed
\* offset of its pool by 3
C29_EmptyRequestDiscardedThree ==
    /\ EmptyRequest
    /\ call.buf_aligned
    /\ IdxNow(call.quality) = IdxPre(call.quality) + WORD - 1

(***************************************************************************)
(* C30                                                                     *)
(***************************************************************************)
\* C30: cc3xx_lowlevel_rng_get_random called with a quality that is neither
\* CC3XX_RNG_CRYPTOGRAPHICALLY_SECURE nor CC3XX_RNG_FAST returns
\* CC3XX_ERR_RNG_INVALID_RNG and changes nothing: no pool offset or buffer,
\* not the state of the fast generator nor lfsr_seed_done, no register of
\* the TRNG and no byte of the destination
C30_InvalidQualityChangesNothing ==
    (call.op = "get_random" /\ call.quality \notin Qualities)
        => /\ call.err = CC3XX_ERR_RNG_INVALID_RNG
           /\ Statics = call.pre
           /\ rng = call.pre_rng
           /\ call.log = << >>
           /\ call.out = Unwritten(call.length)

\* a word aligned request with an invalid quality was made when the
\* offset of the cryptographic pool was no multiple of 4
C30_InvalidQualityAfterRequest ==
    /\ call.op = "get_random"
    /\ call.quality = InvalidQuality
    /\ call.buf_aligned
    /\ call.length = WORD
    /\ call.err = CC3XX_ERR_RNG_INVALID_RNG
    /\ entropy_buf_used_idx = 1
    /\ ncalls = 2

(***************************************************************************)
(* C31                                                                     *)
(***************************************************************************)
\* the last call on the hash operation has returned
HashReturned == hash_op.pc = "ready" /\ hash_op.op # ""

\* C31: a hash operation is inactive (id = 0) after psa_hash_finish has
\* returned, whatever the driver has reported, and after a psa_hash_setup
\* or psa_hash_update that returns an error; psa_hash_abort on an inactive
\* operation returns PSA_SUCCESS without a call of the driver; so the
\* assertion operation->id == 0 of psa_hash_setup never fails on an
\* operation that was finished, has failed or was aborted
C31_InactiveAfterFinishOrError ==
    /\ HashReturned
          => /\ hash_op.op = "finish" => hash_op.id = 0
             /\ (hash_op.op \in {"setup", "update"}
                 /\ hash_op.status # PSA_SUCCESS) => hash_op.id = 0
             /\ hash_op.op = "abort" => hash_op.id = 0
             /\ (hash_op.op = "abort" /\ hash_op.pre_id = 0)
                    => /\ hash_op.status = PSA_SUCCESS
                       /\ hash_op.driver = << >>
    /\ (hash_op.pc = "aborted" /\ hash_op.op = "setup")
          => hash_op.pre_id # 0 \/ ~ hash_op.alg_is_hash

\* psa_hash_finish has returned the error of the driver on an operation
\* that was active, after the driver has finished and aborted it
C31_FinishedWithError ==
    /\ HashReturned
    /\ hash_op.op = "finish"
    /\ hash_op.pre_id # 0
    /\ hash_op.status = PSA_ERROR_GENERIC_ERROR
    /\ hash_op.driver = <<"finish", "abort">>
    /\ hash_op.id = 0

(***************************************************************************)
(* C32                                                                     *)
(***************************************************************************)
\* the last call on the key store has returned
KeysReturned == key_store.pc = "ready" /\ key_store.op # ""
\* id + 1 on 32 bits: the lowest 0 bit is set and the bits below cleared
Succ32(id) ==
    IF id = 0..31 THEN {}
    ELSE LET z == CHOOSE i \in 0..31 :
                      i \notin id /\ \A j \in 0..(i - 1) : j \in id
         IN  (id \ 0..(z - 1)) \cup {z}
\* id was returned by an import before the last call: during the calls
\* followed, or among the key_store.start imports made before them
IssuedBefore(id) ==
    \/ id \in key_store.pre_handed
    \/ id # PSA_KEY_ID_NULL /\ ~ Less(key_store.start, id)
\* what the calls do to the slot, and which identifier passes the
\* assertions of a build that has them
KeyStoreSteps ==
    /\ (KeysReturned /\ key_store.op = "import")
          => /\ key_store.returned = Succ32(key_store.pre_key_id)
             /\ key_store.key_id = key_store.returned
             /\ key_store.is_valid
    /\ (KeysReturned /\ key_store.op = "destroy")
          => /\ key_store.key_id = key_store.pre_key_id
             /\ ~ key_store.is_valid
    /\ (KeysReturned /\ key_store.op \in {"get_attributes", "verify"})
          => /\ key_store.key_id = key_store.pre_key_id
             /\ key_store.is_valid = key_store.pre_valid
    /\ (key_store.asserts
        /\ key_store.op \in {"get_attributes", "verify", "destroy"})
          => (key_store.pc = "aborted"
                 <=> ~ (key_store.pre_valid
                        /\ key_store.key = key_store.pre_key_id))
    /\ key_store.is_valid => key_store.key_id \in key_store.handed

\* C32 as stated: each import returns the previous identifier plus one, a
\* larger number, and never an identifier that was handed out before; only
\* the identifier of the last import, if not destroyed, passes the
\* assertions
C32_IdentifierNeverReused ==
    /\ KeyStoreSteps
    /\ (KeysReturned /\ key_store.op = "import")
          => /\ Less(key_store.pre_key_id, key_store.returned)
             /\ ~ IssuedBefore(key_store.returned)

\* the counter of the key store has wrapped: the identifier handed out was
\* handed out before
C32_IdentifierReused ==
    /\ KeysReturned
    /\ key_store.op = "import"
    /\ key_store.wrapped
    /\ IssuedBefore(key_store.returned)

\* the calls of the last boot_platform_* call that a driver has answered
\* without an error, and the places of a call in its log
BootAt(what, arg) ==
    {i \in DOMAIN boot_hal.log :
        /\ boot_hal.log[i].call = what
        /\ boot_hal.log[i].arg = arg}
BootOkBefore(what, arg, i) ==
    \E j \in BootAt(what, arg) : j < i /\ boot_hal.log[j].ok
PostLoadOf(image_id) ==
    /\ boot_hal.pc = "returned"
    /\ boot_hal.fn = "post_load"
    /\ boot_hal.image = image_id
\* boot_platform_pre_load and then boot_platform_post_load of image_id have
\* both returned 0
LoadedWithoutError(image_id) ==
    /\ PostLoadOf(image_id)
    /\ boot_hal.ret = 0
    /\ boot_hal.prev = [fn |-> "pre_load", image |-> image_id, ret |-> 0]
RegionsOf(image_id) ==
    IF image_id = RSE_FIRMWARE_SCP_ID
    THEN {RSE_ATU_IMG_HDR_LOAD_ID, RSE_ATU_IMG_CODE_LOAD_ID,
          HOST_SCP_INIT_CTRL_ATU_ID}
    ELSE {RSE_ATU_IMG_HDR_LOAD_ID, RSE_ATU_IMG_CODE_LOAD_ID}

\* C33: in boot_platform_post_load of the SCP image the SCP is released from
\* reset only after the image header has been zeroed, the ATU access
\* permission of the SCP enabled and the INIT_CTRL region opened; and when
\* boot_platform_pre_load and then boot_platform_post_load of the SCP image
\* or of the AP BL2 image have both returned 0, the header region, the code
\* region and, for the SCP, the INIT_CTRL region are closed
C33_ReleasedLastRegionsClosed ==
    /\ \A i \in BootAt("mscp_driver_release_cpu", NoArg) :
          /\ PostLoadOf(RSE_FIRMWARE_SCP_ID)
          /\ BootOkBefore("memset", HOST_SCP_IMG_HDR_BASE_S, i)
          /\ BootOkBefore("atu_ap", RSE_INTEG_ATU_AP_SCP_ATU, i)
          /\ BootOkBefore("atu_initialize_region",
                          HOST_SCP_INIT_CTRL_ATU_ID, i)
    /\ PostLoadOf(RSE_FIRMWARE_SCP_ID) /\ boot_hal.ret = 0
          => BootAt("mscp_driver_release_cpu", NoArg) # {}
    /\ \A image_id \in {RSE_FIRMWARE_SCP_ID, RSE_FIRMWARE_AP_BL2_ID} :
          LoadedWithoutError(image_id)
             => boot_hal.atu \cap RegionsOf(image_id) = {}

\* the SCP image has been loaded without an error and the SCP released
C33_ScpLoadedAndReleased ==
    /\ LoadedWithoutError(RSE_FIRMWARE_SCP_ID)
    /\ boot_hal.scp_released
    /\ boot_hal.atu_ap
    /\ BootAt("mscp_driver_release_cpu", NoArg) # {}

=============================================================================
